---- MODULE Spec2Model ----
(***************************************************************************)
(* A model of the movie-graph ETL (src/movie_graph/etl/process.py).         *)
(*                                                                         *)
(*   Spec        transform_data on a row sequence df                        *)
(*   ParseSpec   parse_json_fields on the cells of one column               *)
(*   FaultSpec   transform_data on rows with nested entries that lack a key *)
(*   EtlSpec     extract_data on two sources, then transform_data           *)
(*   RunSpec     run_etl: extract_data, transform_data, load_data           *)
(*   ConnSpec    a client of a Neo4jConnection                              *)
(*                                                                         *)
(* Python dicts keep insertion order; a dict keyed by a record's id is      *)
(* modelled as the sequence of its items in insertion order.  A nested      *)
(* entry (one genre, one actor, ...) is a TLA+ record whose DOMAIN is the   *)
(* set of keys the Python mapping has; reading a key that is absent is a    *)
(* KeyError.                                                                *)
(***************************************************************************)
EXTENDS Integers, Sequences, FiniteSets, TLC

VARIABLES
    df,               \* the DataFrame transform_data iterates: a sequence of rows
    pc,               \* "extract" | "transform" | "returned" | "loaded" | "raised", or the
                      \* step of parse_json_fields ("apply", "isna", ..., "parsed")
    i,                \* number of rows whose loop body has completed
    movies,           \* list
    persons,          \* dict person_id -> record
    genres,           \* dict genre_id -> record
    keywords,         \* dict keyword_id -> record
    companies,        \* dict company_id -> record
    acted_in,         \* list
    directed,         \* list
    produced,         \* list
    categorized_as,   \* list
    tagged_with,      \* list
    transformed_data, \* the value transform_data returns (NoData before it returns)
    error,            \* the exception that left the function ("none" if none did)
    cell,             \* the cell safe_json_loads was last called on
    cells_left,       \* the cells of the column not yet passed to safe_json_loads
    attempts,         \* the parse attempts made on the cell, in order
    result,           \* what safe_json_loads returned for the cell
    warned,           \* whether the warning was printed for the cell
    py310,            \* whether ast.literal_eval strips leading spaces (Python >= 3.10)
    files,            \* the input files that exist
    movies_df,        \* the table read from the movies file
    credits_df,       \* the table read from the credits file, its key renamed
    reads,            \* the input files pd.read_csv has read
    output,           \* the output directory and the files written to it
    conn              \* a Neo4jConnection: the with block of its client and the
                      \* calls made on it and on its driver, in order

vars == <<df, pc, i, movies, persons, genres, keywords, companies, acted_in,
          directed, produced, categorized_as, tagged_with, transformed_data, error,
          cell, cells_left, attempts, result, warned, py310,
          files, movies_df, credits_df, reads, output, conn>>

(***************************************************************************)
(* Bounds of the model.                                                     *)
(***************************************************************************)
MaxRows == 2

MaxTextLen == 2

MaxCells == 2

MaxLines == 2

\* the greatest number of lines of a source file in a run of run_etl
MaxRunLines == 1

parseVars == <<cell, cells_left, attempts, result, warned, py310>>

extractVars == <<files, movies_df, credits_df, reads, output>>

\* the greatest number of calls a client makes on a Neo4jConnection
MaxCalls == 5

(***************************************************************************)
(* Generic helpers.                                                         *)
(***************************************************************************)
Min(a, b) == IF a < b THEN a ELSE b

Has(e, k) == k \in DOMAIN e

\* Mutant of Get: a missing key gives None.
GetNone(e, k, default) == IF k \in DOMAIN e THEN e[k] ELSE "None"

\* dict.get(k, default)
Get(e, k, default) == IF Has(e, k) THEN e[k] ELSE default

\* Mutants of Put: the first value stored under a key is kept; every store adds
\* an item; a store under an existing key moves the item to the end.
PutFirstWins(d, key, value) ==
    IF \E k \in 1..Len(d) : d[k].key = key
    THEN d
    ELSE Append(d, [key |-> key, value |-> value])

PutAlways(d, key, value) == Append(d, [key |-> key, value |-> value])

PutMoveToEnd(d, key, value) ==
    LET Others(item) == item.key # key
    IN  Append(SelectSeq(d, Others), [key |-> key, value |-> value])

\* A dict is the sequence of its items <<key, value>> in insertion order.
\* d[key] = value: an existing key keeps its position and takes the new value,
\* a new key is added at the end.
Put(d, key, value) ==
    IF \E k \in 1..Len(d) : d[k].key = key
    THEN [k \in 1..Len(d) |-> IF d[k].key = key THEN [key |-> key, value |-> value] ELSE d[k]]
    ELSE Append(d, [key |-> key, value |-> value])

\* list(d.values())
Values(d) == [k \in 1..Len(d) |-> d[k].value]

\* list(d.keys())
Keys(d) == [k \in 1..Len(d) |-> d[k].key]

\* Mutant of ListAppend: an element equal to one already in the list is not added.
ListAppendUnique(xs, x) ==
    IF \E k \in 1..Len(xs) : xs[k] = x THEN xs ELSE Append(xs, x)

\* xs.append(x)
ListAppend(xs, x) == Append(xs, x)

NoData == [nodes |-> <<>>, relationships |-> <<>>]

(***************************************************************************)
(* The rows transform_data is run on.  The first content is the row of      *)
(* test_transform_data; the others vary one loop of the body at a time.     *)
(***************************************************************************)
TopCast == 10

MovieIds == {1, 2}

ScalarsA ==
    [title |-> "Test Movie", release_date |-> "2023-01-01", budget |-> 1000000,
     revenue |-> 2000000, popularity |-> "7.5", vote_average |-> "8.0",
     vote_count |-> 100, overview |-> "Test overview"]

ScalarsB ==
    [title |-> "Other Movie", release_date |-> "1999-12-31", budget |-> 5,
     revenue |-> 6, popularity |-> "0.1", vote_average |-> "2.5",
     vote_count |-> 7, overview |-> "Other overview"]

Action == [id |-> 1, name |-> "Action"]
Action2 == [id |-> 1, name |-> "Action & Adventure"]
Drama == [id |-> 2, name |-> "Drama"]

Hero == [id |-> 1, name |-> "hero"]
Hero2 == [id |-> 1, name |-> "superhero"]
Space == [id |-> 2, name |-> "space"]

Studio == [id |-> 1, name |-> "Test Studio", origin_country |-> "US"]
Studio2 == [id |-> 1, name |-> "Test Studio Ltd"]
Indie == [id |-> 2, name |-> "Indie Films", origin_country |-> "GB"]

ActorNames ==
    <<"Test Actor", "Actor 2", "Actor 3", "Actor 4", "Actor 5", "Actor 6",
      "Actor 7", "Actor 8", "Actor 9", "Actor 10", "Actor 11", "Actor 12">>

Characters ==
    <<"Main Character", "Role 2", "Role 3", "Role 4", "Role 5", "Role 6",
      "Role 7", "Role 8", "Role 9", "Role 10", "Role 11", "Role 12">>

\* The cast entry at source position k (1-based) for person id p.  Entries at
\* even positions carry neither gender nor profile_path.
Actor(p, k) ==
    IF k % 2 = 1
    THEN [id |-> p, name |-> ActorNames[k], gender |-> 1, profile_path |-> "/a.jpg",
          character |-> Characters[k]]
    ELSE [id |-> p, name |-> ActorNames[k], character |-> Characters[k]]

\* n cast entries of n different persons, ids 1..n
CastDistinct(n) == [k \in 1..n |-> Actor(k, k)]

\* n cast entries whose person ids start again at 1 after TopCast entries
CastWrap(n) == [k \in 1..n |-> Actor(((k - 1) % TopCast) + 1, k)]

\* n cast entries of the one person 1, under n names
CastSame(n) == [k \in 1..n |-> Actor(1, k)]

Director(p, nm) ==
    [id |-> p, name |-> nm, gender |-> 2, job |-> "Director", department |-> "Directing"]

CrewMember(p, nm, job) ==
    [id |-> p, name |-> nm, job |-> job, department |-> "Crew"]

\* n crew entries, the last one the only Director
CrewLong(n) ==
    [k \in 1..n |-> IF k = n THEN Director(2, "Test Director")
                    ELSE CrewMember(k + 2, "Crew Member", "Editor")]

Content(sc, g, kw, co, cast, crew) ==
    [scalars |-> sc, genres |-> g, keywords |-> kw, production_companies |-> co,
     cast |-> cast, crew |-> crew]

\* the row of test_transform_data, without its id
TestContent ==
    Content(ScalarsA, <<Action>>, <<Hero>>, <<Studio>>, CastDistinct(1),
            <<Director(2, "Test Director")>>)

Contents ==
    { TestContent,
      Content(ScalarsA, <<>>, <<>>, <<>>, <<>>, <<>>),
      Content(ScalarsB, <<>>, <<>>, <<>>, <<>>, <<>>),
      Content(ScalarsB, <<Action, Action>>, <<Hero, Hero>>, <<Studio, Studio>>, <<>>, <<>>),
      Content(ScalarsB, <<Action2, Drama>>, <<Hero2>>, <<Studio2>>, <<>>, <<>>),
      Content(ScalarsA, <<Drama, Action>>, <<Space, Hero>>, <<Indie, Studio>>, <<>>, <<>>),
      Content(ScalarsA, <<Action, Action2>>, <<>>, <<Studio2, Studio>>, <<>>, <<>>),
      Content(ScalarsA, <<>>, <<>>, <<>>, CastSame(2), <<>>),
      Content(ScalarsA, <<>>, <<>>, <<>>, CastDistinct(TopCast), <<>>),
      Content(ScalarsA, <<>>, <<>>, <<>>, CastDistinct(TopCast + 1), <<>>),
      Content(ScalarsB, <<>>, <<>>, <<>>, CastWrap(TopCast + 1), <<>>),
      Content(ScalarsB, <<>>, <<>>, <<>>, CastWrap(TopCast + 2), <<>>),
      Content(ScalarsA, <<>>, <<>>, <<>>, <<>>,
              <<Director(2, "Test Director"), CrewMember(3, "Lower Case", "director"),
                CrewMember(1, "Co Director", "Co-Director")>>),
      Content(ScalarsA, <<>>, <<>>, <<>>, <<>>, CrewLong(TopCast + 2)),
      Content(ScalarsB, <<>>, <<>>, <<>>, <<>>,
              <<CrewMember(1, "Test Producer", "Producer")>>),
      Content(ScalarsB, <<>>, <<>>, <<>>, CastDistinct(1),
              <<Director(1, "Actor Director")>>),
      Content(ScalarsB, <<>>, <<>>, <<>>, <<>>,
              <<Director(2, "Test Director"), Director(2, "T. Director")>>),
      Content(ScalarsA, <<Drama, [id |-> 1]>>, <<>>, <<>>, <<>>, <<>>),
      Content(ScalarsA, <<>>, <<>>, <<>>,
              <<[id |-> 3, name |-> "Extra"]>>, <<>>) }

Row(id, c) ==
    [id |-> id, title |-> c.scalars.title, release_date |-> c.scalars.release_date,
     budget |-> c.scalars.budget, revenue |-> c.scalars.revenue,
     popularity |-> c.scalars.popularity, vote_average |-> c.scalars.vote_average,
     vote_count |-> c.scalars.vote_count, overview |-> c.scalars.overview,
     genres |-> c.genres, keywords |-> c.keywords,
     production_companies |-> c.production_companies, cast |-> c.cast, crew |-> c.crew]

DataFrames ==
    UNION {[1..n -> {Row(id, c) : id \in MovieIds, c \in Contents}] : n \in 0..MaxRows}

(***************************************************************************)
(* transform_data.                                                          *)
(***************************************************************************)
\* Mutant of MovieNode: budget and revenue exchanged.
MovieNodeSwapped(row) ==
    [id |-> row.id, title |-> row.title, release_date |-> row.release_date,
     budget |-> row.revenue, revenue |-> row.budget, popularity |-> row.popularity,
     vote_average |-> row.vote_average, vote_count |-> row.vote_count,
     overview |-> row.overview]

MovieNode(row) ==
    [id |-> row.id, title |-> row.title, release_date |-> row.release_date,
     budget |-> row.budget, revenue |-> row.revenue, popularity |-> row.popularity,
     vote_average |-> row.vote_average, vote_count |-> row.vote_count,
     overview |-> row.overview]

GenreNode(genre) == [id |-> genre.id, name |-> genre.name]

KeywordNode(keyword) == [id |-> keyword.id, name |-> keyword.name]

CompanyNode(company) ==
    [id |-> company.id, name |-> company.name,
     origin_country |-> Get(company, "origin_country", "")]

PersonNode(p) ==
    [id |-> p.id, name |-> p.name, gender |-> Get(p, "gender", 0),
     profile_path |-> Get(p, "profile_path", "")]

CategorizedAsEdge(movie_id, genre_id) == [movie_id |-> movie_id, genre_id |-> genre_id]

TaggedWithEdge(movie_id, keyword_id) == [movie_id |-> movie_id, keyword_id |-> keyword_id]

ProducedEdge(movie_id, company_id) == [movie_id |-> movie_id, company_id |-> company_id]

ActedInEdge(movie_id, actor, order) ==
    [person_id |-> actor.id, movie_id |-> movie_id, character |-> actor.character,
     order |-> order]

DirectedEdge(movie_id, crew_member) ==
    [person_id |-> crew_member.id, movie_id |-> movie_id, job |-> crew_member.job,
     department |-> crew_member.department]

\* Mutant of IsDirector: any job that names a director, in any case.
IsDirectorLoose(crew_member) ==
    crew_member.job \in {"Director", "director", "Co-Director"}

\* crew_member['job'] == 'Director'
IsDirector(crew_member) == crew_member.job = "Director"

\* The local collections of transform_data, as one value.
Locals ==
    [persons |-> persons, genres |-> genres, keywords |-> keywords,
     companies |-> companies, acted_in |-> acted_in, directed |-> directed,
     produced |-> produced, categorized_as |-> categorized_as,
     tagged_with |-> tagged_with, error |-> error]

\* Mutant of Raise: the entry is skipped and the loop goes on.
SkipEntry(s, e) == s

Raise(s, e) == [s EXCEPT !.error = e]

\* Mutant of GenreStep: the edge is added and the genre is not stored.
GenreStepEdgeOnly(s, movie_id, genre) ==
    IF s.error # "none" THEN s
    ELSE IF ~Has(genre, "id") \/ ~Has(genre, "name") THEN Raise(s, "KeyError")
    ELSE [s EXCEPT !.categorized_as = ListAppend(@, CategorizedAsEdge(movie_id, genre.id))]

\* One iteration of each inner loop: s is the collections before it, the result
\* the collections after it.  Once a KeyError is raised nothing more is done.
GenreStep(s, movie_id, genre) ==
    IF s.error # "none" THEN s
    ELSE IF ~Has(genre, "id") \/ ~Has(genre, "name") THEN Raise(s, "KeyError")
    ELSE [s EXCEPT !.genres = Put(@, genre.id, GenreNode(genre)),
                   !.categorized_as = ListAppend(@, CategorizedAsEdge(movie_id, genre.id))]

KeywordStep(s, movie_id, keyword) ==
    IF s.error # "none" THEN s
    ELSE IF ~Has(keyword, "id") \/ ~Has(keyword, "name") THEN Raise(s, "KeyError")
    ELSE [s EXCEPT !.keywords = Put(@, keyword.id, KeywordNode(keyword)),
                   !.tagged_with = ListAppend(@, TaggedWithEdge(movie_id, keyword.id))]

CompanyStep(s, movie_id, company) ==
    IF s.error # "none" THEN s
    ELSE IF ~Has(company, "id") \/ ~Has(company, "name") THEN Raise(s, "KeyError")
    ELSE [s EXCEPT !.companies = Put(@, company.id, CompanyNode(company)),
                   !.produced = ListAppend(@, ProducedEdge(movie_id, company.id))]

\* The person is stored before actor['character'] is read.
CastStep(s, movie_id, item) ==
    LET actor == item.x IN
    IF s.error # "none" THEN s
    ELSE IF ~Has(actor, "id") \/ ~Has(actor, "name") THEN Raise(s, "KeyError")
    ELSE IF ~Has(actor, "character")
         THEN Raise([s EXCEPT !.persons = Put(@, actor.id, PersonNode(actor))], "KeyError")
    ELSE [s EXCEPT !.persons = Put(@, actor.id, PersonNode(actor)),
                   !.acted_in = ListAppend(@, ActedInEdge(movie_id, actor, item.i))]

\* The person is stored before crew_member['department'] is read.
CrewStep(s, movie_id, crew_member) ==
    IF s.error # "none" THEN s
    ELSE IF ~Has(crew_member, "job") THEN Raise(s, "KeyError")
    ELSE IF ~IsDirector(crew_member) THEN s
    ELSE IF ~Has(crew_member, "id") \/ ~Has(crew_member, "name") THEN Raise(s, "KeyError")
    ELSE IF ~Has(crew_member, "department")
         THEN Raise([s EXCEPT !.persons = Put(@, crew_member.id, PersonNode(crew_member))],
                    "KeyError")
    ELSE [s EXCEPT !.persons = Put(@, crew_member.id, PersonNode(crew_member)),
                   !.directed = ListAppend(@, DirectedEdge(movie_id, crew_member))]

\* for genre in row['genres']
GenreLoop(s, movie_id, xs) ==
    LET after[k \in 0..Len(xs)] ==
            IF k = 0 THEN s ELSE GenreStep(after[k - 1], movie_id, xs[k])
    IN  after[Len(xs)]

\* for keyword in row['keywords']
KeywordLoop(s, movie_id, xs) ==
    LET after[k \in 0..Len(xs)] ==
            IF k = 0 THEN s ELSE KeywordStep(after[k - 1], movie_id, xs[k])
    IN  after[Len(xs)]

\* for company in row['production_companies']
CompanyLoop(s, movie_id, xs) ==
    LET after[k \in 0..Len(xs)] ==
            IF k = 0 THEN s ELSE CompanyStep(after[k - 1], movie_id, xs[k])
    IN  after[Len(xs)]

\* Mutant of CastLoop: the whole cast, without the slice.
CastLoopAll(s, movie_id, xs) ==
    LET items == [k \in 1..Len(xs) |-> [i |-> k - 1, x |-> xs[k]]]
        after[k \in 0..Len(items)] ==
            IF k = 0 THEN s ELSE CastStep(after[k - 1], movie_id, items[k])
    IN  after[Len(items)]

\* for i, actor in enumerate(row['cast'][:10]): the slice is the first
\* TopCast entries, enumerate pairs them with 0, 1, ...
CastLoop(s, movie_id, xs) ==
    LET CastSlice == SubSeq(xs, 1, Min(TopCast, Len(xs)))
        items == [k \in 1..Len(CastSlice) |-> [i |-> k - 1, x |-> CastSlice[k]]]
        after[k \in 0..Len(items)] ==
            IF k = 0 THEN s ELSE CastStep(after[k - 1], movie_id, items[k])
    IN  after[Len(items)]

\* for crew_member in row['crew']
CrewLoop(s, movie_id, xs) ==
    LET after[k \in 0..Len(xs)] ==
            IF k = 0 THEN s ELSE CrewStep(after[k - 1], movie_id, xs[k])
    IN  after[Len(xs)]

\* One inner loop of the body, over row[col]; row[col] of a column the row
\* does not have is a KeyError.
ColumnLoop(s, row, col) ==
    IF s.error # "none" THEN s
    ELSE IF ~Has(row, col) THEN Raise(s, "KeyError")
    ELSE IF col = "genres" THEN GenreLoop(s, row.id, row[col])
    ELSE IF col = "keywords" THEN KeywordLoop(s, row.id, row[col])
    ELSE IF col = "production_companies" THEN CompanyLoop(s, row.id, row[col])
    ELSE IF col = "cast" THEN CastLoop(s, row.id, row[col])
    ELSE CrewLoop(s, row.id, row[col])

\* Mutant of RowBody: the crew is gone through before the cast.
RowBodyCrewFirst(s, row) ==
    ColumnLoop(
        ColumnLoop(
            ColumnLoop(
                ColumnLoop(ColumnLoop(s, row, "genres"), row, "keywords"),
                row, "production_companies"),
            row, "crew"),
        row, "cast")

\* The body of the loop over the rows, after the movie node is appended.
RowBody(s, row) ==
    ColumnLoop(
        ColumnLoop(
            ColumnLoop(
                ColumnLoop(ColumnLoop(s, row, "genres"), row, "keywords"),
                row, "production_companies"),
            row, "cast"),
        row, "crew")

TransformInit ==
    /\ i = 0
    /\ movies = <<>>
    /\ persons = <<>>
    /\ genres = <<>>
    /\ keywords = <<>>
    /\ companies = <<>>
    /\ acted_in = <<>>
    /\ directed = <<>>
    /\ produced = <<>>
    /\ categorized_as = <<>>
    /\ tagged_with = <<>>
    /\ transformed_data = NoData

\* for _, row in df.iterrows(): one iteration
ProcessRow ==
    /\ pc = "transform"
    /\ i < Len(df)
    /\ LET row == df[i + 1]
           s   == RowBody(Locals, row)
       IN  /\ movies' = ListAppend(movies, MovieNode(row))
           /\ persons' = s.persons
           /\ genres' = s.genres
           /\ keywords' = s.keywords
           /\ companies' = s.companies
           /\ acted_in' = s.acted_in
           /\ directed' = s.directed
           /\ produced' = s.produced
           /\ categorized_as' = s.categorized_as
           /\ tagged_with' = s.tagged_with
           /\ error' = s.error
           /\ i' = IF s.error = "none" THEN i + 1 ELSE i
           /\ pc' = IF s.error = "none" THEN "transform" ELSE "raised"
    /\ UNCHANGED <<df, transformed_data, parseVars, extractVars, conn>>

\* the conversion of the dicts to lists, and the return
Return ==
    /\ pc = "transform"
    /\ i = Len(df)
    /\ transformed_data' =
          [nodes |-> [movies |-> movies, persons |-> Values(persons),
                      genres |-> Values(genres), keywords |-> Values(keywords),
                      companies |-> Values(companies)],
           relationships |-> [acted_in |-> acted_in, directed |-> directed,
                              produced |-> produced, categorized_as |-> categorized_as,
                              tagged_with |-> tagged_with]]
    /\ pc' = "returned"
    /\ UNCHANGED <<df, i, movies, persons, genres, keywords, companies, acted_in,
                   directed, produced, categorized_as, tagged_with, error, parseVars,
                   extractVars, conn>>

Init ==
    /\ df \in DataFrames
    /\ TransformInit
    /\ pc = "transform"
    /\ error = "none"
    /\ cell = [k |-> "none", v |-> <<>>]
    /\ cells_left = 0
    /\ attempts = <<>>
    /\ result = [st |-> "none", value |-> [t |-> "None", v |-> <<>>]]
    /\ warned = FALSE
    /\ py310 = TRUE
    /\ files = {}
    /\ movies_df = [columns |-> <<>>, rows |-> <<>>]
    /\ credits_df = [columns |-> <<>>, rows |-> <<>>]
    /\ reads = {}
    /\ output = [found |-> "unseen", made |-> {}, files |-> <<>>]
    /\ conn = [block |-> "none", calls |-> <<>>]

Next == ProcessRow \/ Return

Spec == Init /\ [][Next]_vars

(***************************************************************************)
(* transform_data on rows with a nested entry that lacks a key.  The entry  *)
(* stands between two whole entries of its list, in the row of              *)
(* test_transform_data with three entries in that list.                     *)
(***************************************************************************)
FaultyContents ==
    LET Drop(entry, key) == [c \in DOMAIN entry \ {key} |-> entry[c]]
        Cast3 == CastDistinct(3)
        Crew3 == <<CrewMember(3, "Test Editor", "Editor"), Director(2, "Test Director"),
                   Director(4, "Other Director")>>
        Second(xs, key) == [xs EXCEPT ![2] = Drop(@, key)]
    IN  {Content(ScalarsA, Second(<<Action, Drama, Action2>>, key), <<Hero>>, <<Studio>>,
                 Cast3, Crew3) : key \in {"id", "name"}}
        \cup {Content(ScalarsA, <<Action>>, Second(<<Hero, Space, Hero2>>, key), <<Studio>>,
                      Cast3, Crew3) : key \in {"id", "name"}}
        \cup {Content(ScalarsA, <<Action>>, <<Hero>>,
                      Second(<<Studio, Indie, Studio2>>, key), Cast3, Crew3) :
                  key \in {"id", "name"}}
        \cup {Content(ScalarsA, <<Action>>, <<Hero>>, <<Studio>>, Second(Cast3, key), Crew3) :
                  key \in {"id", "name", "character"}}
        \cup {Content(ScalarsA, <<Action>>, <<Hero>>, <<Studio>>, Cast3, Second(Crew3, key)) :
                  key \in {"id", "name", "job", "department"}}
        \cup {Content(ScalarsA, <<Action>>, <<Hero>>, <<Studio>>, Cast3,
                      [Crew3 EXCEPT ![1] = Drop(@, key)]) :
                  key \in {"id", "job", "department"}}
        \cup {Content(ScalarsA, <<Action>>, <<Hero>>, <<Studio>>,
                      [CastDistinct(TopCast + 1) EXCEPT ![TopCast + 1] = Drop(@, "character")],
                      Crew3),
              TestContent}

FaultInit ==
    /\ df \in UNION {[1..n -> {Row(id, c) : id \in MovieIds, c \in FaultyContents}] :
                         n \in 0..MaxRows}
    /\ TransformInit
    /\ pc = "transform"
    /\ error = "none"
    /\ cell = [k |-> "none", v |-> <<>>]
    /\ cells_left = 0
    /\ attempts = <<>>
    /\ result = [st |-> "none", value |-> [t |-> "None", v |-> <<>>]]
    /\ warned = FALSE
    /\ py310 = TRUE
    /\ files = {}
    /\ movies_df = [columns |-> <<>>, rows |-> <<>>]
    /\ credits_df = [columns |-> <<>>, rows |-> <<>>]
    /\ reads = {}
    /\ output = [found |-> "unseen", made |-> {}, files |-> <<>>]
    /\ conn = [block |-> "none", calls |-> <<>>]

FaultSpec == FaultInit /\ [][Next]_vars

(***************************************************************************)
(* Cell texts.  A text is a sequence of atoms: the punctuation of JSON and  *)
(* of Python literals, the two quote characters, the space, three letters,  *)
(* two digits, and the words null, true, None and True, each taken as one   *)
(* atom.  No run of the letters spells a keyword or a string prefix of      *)
(* Python, so a run of letters, words and digits that starts with a letter  *)
(* or a word is an identifier, and is one of the four words only when it    *)
(* is that single atom.                                                     *)
(***************************************************************************)
Digits == {"1", "2"}

WordAtoms == {"a", "i", "d", "null", "true", "None", "True"} \cup Digits

Quotes == {"'", "\""}

Atoms == {"[", "]", "{", "}", ",", ":", " "} \cup Quotes \cup WordAtoms

\* the position of the first atom at or after p that is not a space
RECURSIVE SkipWs(_, _)
SkipWs(x, p) == IF p <= Len(x) /\ x[p] = " " THEN SkipWs(x, p + 1) ELSE p

\* the atom at p, "" past the end
AtomAt(x, p) == IF p >= 1 /\ p <= Len(x) THEN x[p] ELSE ""

\* the position after the run of atoms of S that starts at p
RECURSIVE RunEnd(_, _, _)
RunEnd(x, p, S) == IF AtomAt(x, p) \in S THEN RunEnd(x, p + 1, S) ELSE p

\* the least position >= p from which the atoms of pat follow, 0 if none
RECURSIVE Find(_, _, _)
Find(x, p, pat) ==
    IF p + Len(pat) - 1 > Len(x) THEN 0
    ELSE IF SubSeq(x, p, p + Len(pat) - 1) = pat THEN p
    ELSE Find(x, p + 1, pat)

(***************************************************************************)
(* Python values.  A dict is the sequence of its items in insertion order,  *)
(* a set the sequence of its elements in insertion order.                   *)
(***************************************************************************)
PyValue(t, v) == [t |-> t, v |-> v]

PyNone == PyValue("None", <<>>)

PyTrue == PyValue("bool", <<>>)

\* a == b for hashable values: True equals the int 1
PyEq(a, b) ==
    LET Norm(c) == IF c = PyTrue THEN PyValue("int", <<"1">>) ELSE c
    IN  Norm(a) = Norm(b)

\* hash(v) does not raise
Hashable(v) == v.t \notin {"list", "dict", "set"}

\* d[key] = value on the items of a dict: the first key equal to key keeps its
\* place (and stays the key), its value is replaced
DictPut(items, key, value) ==
    IF \E n \in 1..Len(items) : PyEq(items[n].key, key)
    THEN [n \in 1..Len(items) |->
             IF PyEq(items[n].key, key) THEN [key |-> items[n].key, value |-> value]
             ELSE items[n]]
    ELSE Append(items, [key |-> key, value |-> value])

\* s.add(v) on the elements of a set
SetAdd(elts, v) ==
    IF \E n \in 1..Len(elts) : PyEq(elts[n], v) THEN elts ELSE Append(elts, v)

(***************************************************************************)
(* json.loads on a text.  A parse yields [ok, pos, value]: whether a value  *)
(* was read, the position after it, and the value.                          *)
(***************************************************************************)
NoParse == [ok |-> FALSE, pos |-> 0, value |-> PyNone]

Parsed(p, v) == [ok |-> TRUE, pos |-> p, value |-> v]

\* a string that opens at p with a double quote
JsonString(x, p) ==
    LET close == Find(x, p + 1, <<"\"">>)
    IN  IF AtomAt(x, p) # "\"" \/ close = 0 THEN NoParse
        ELSE Parsed(close + 1, PyValue("str", SubSeq(x, p + 1, close - 1)))

JsonWord(w) == IF w = "null" THEN PyNone ELSE PyTrue

RECURSIVE JsonValue(_, _), JsonArray(_, _, _), JsonObject(_, _, _)

\* the value that starts at p
JsonValue(x, p) ==
    LET c == AtomAt(x, p) IN
    IF c = "\"" THEN JsonString(x, p)
    ELSE IF c = "[" THEN
        IF AtomAt(x, SkipWs(x, p + 1)) = "]"
        THEN Parsed(SkipWs(x, p + 1) + 1, PyValue("list", <<>>))
        ELSE JsonArray(x, SkipWs(x, p + 1), <<>>)
    ELSE IF c = "{" THEN
        IF AtomAt(x, SkipWs(x, p + 1)) = "}"
        THEN Parsed(SkipWs(x, p + 1) + 1, PyValue("dict", <<>>))
        ELSE JsonObject(x, SkipWs(x, p + 1), <<>>)
    ELSE IF c \in {"null", "true"} THEN Parsed(p + 1, JsonWord(c))
    ELSE IF c \in Digits
         THEN Parsed(RunEnd(x, p, Digits), PyValue("int", SubSeq(x, p, RunEnd(x, p, Digits) - 1)))
    ELSE NoParse

\* the elements of an array from the element that starts at p; vs are the
\* elements read before it
JsonArray(x, p, vs) ==
    LET el == JsonValue(x, p)
        q  == SkipWs(x, el.pos)
    IN  IF ~el.ok THEN NoParse
        ELSE IF AtomAt(x, q) = "]" THEN Parsed(q + 1, PyValue("list", Append(vs, el.value)))
        ELSE IF AtomAt(x, q) = ","
             THEN JsonArray(x, SkipWs(x, q + 1), Append(vs, el.value))
        ELSE NoParse

\* the members of an object from the key that starts at p; items are the
\* members read before it
JsonObject(x, p, items) ==
    LET key   == JsonString(x, p)
        colon == SkipWs(x, key.pos)
        val   == JsonValue(x, SkipWs(x, colon + 1))
        q     == SkipWs(x, val.pos)
    IN  IF ~key.ok \/ AtomAt(x, colon) # ":" THEN NoParse
        ELSE IF ~val.ok THEN NoParse
        ELSE IF AtomAt(x, q) = "}"
             THEN Parsed(q + 1, PyValue("dict", DictPut(items, key.value, val.value)))
        ELSE IF AtomAt(x, q) = ","
             THEN JsonObject(x, SkipWs(x, q + 1), DictPut(items, key.value, val.value))
        ELSE NoParse

\* json.loads(x): [st, value] with st "ok" or "JSONDecodeError"
JsonLoads(x) ==
    LET top == JsonValue(x, SkipWs(x, 1))
    IN  IF top.ok /\ SkipWs(x, top.pos) > Len(x)
        THEN [st |-> "ok", value |-> top.value]
        ELSE [st |-> "JSONDecodeError", value |-> PyNone]

(***************************************************************************)
(* ast.literal_eval on a text: the text is parsed as a Python expression    *)
(* (a SyntaxError if it is none) and the expression is then converted to a  *)
(* value, node by node in source order (a ValueError at a node that is no   *)
(* literal, a TypeError when an unhashable value is made a dict key or a    *)
(* set element).  Over the atoms the expressions are: numbers, strings      *)
(* (adjacent ones concatenate; three quotes open a triple-quoted string),   *)
(* identifiers, None and True, lists, sets and dicts (a trailing comma is   *)
(* allowed), subscripts and slices of any of these, and at the top level a  *)
(* tuple written without parentheses.                                       *)
(***************************************************************************)
Ast(t, v) == [t |-> t, v |-> v]

NoNode == [ok |-> FALSE, pos |-> 0, node |-> Ast("name", <<>>)]

Noded(p, n) == [ok |-> TRUE, pos |-> p, node |-> n]

\* one string literal that opens at p: [ok, pos, value] with its content
PyStringLiteral(x, p) ==
    LET q      == AtomAt(x, p)
        triple == AtomAt(x, p + 1) = q /\ AtomAt(x, p + 2) = q
        close  == IF triple THEN Find(x, p + 3, <<q, q, q>>) ELSE Find(x, p + 1, <<q>>)
    IN  IF q \notin Quotes \/ close = 0 THEN NoParse
        ELSE IF triple THEN Parsed(close + 3, SubSeq(x, p + 3, close - 1))
        ELSE Parsed(close + 1, SubSeq(x, p + 1, close - 1))

\* the string literals that follow one another from p; s is the content of
\* those read before
RECURSIVE PyStrings(_, _, _)
PyStrings(x, p, s) ==
    LET lit == PyStringLiteral(x, p) IN
    IF ~lit.ok THEN NoNode
    ELSE IF AtomAt(x, SkipWs(x, lit.pos)) \in Quotes
         THEN PyStrings(x, SkipWs(x, lit.pos), s \o lit.value)
    ELSE Noded(lit.pos, Ast("const", PyValue("str", s \o lit.value)))

\* the number or identifier that starts at p
PyWord(x, p) ==
    LET e   == RunEnd(x, p, WordAtoms)
        run == SubSeq(x, p, e - 1)
    IN  IF x[p] \in Digits
        THEN IF \A n \in 1..Len(run) : run[n] \in Digits
             THEN Noded(e, Ast("const", PyValue("int", run)))
             ELSE NoNode
        ELSE IF run = <<"None">> THEN Noded(e, Ast("const", PyNone))
        ELSE IF run = <<"True">> THEN Noded(e, Ast("const", PyTrue))
        ELSE Noded(e, Ast("name", <<>>))

RECURSIVE PyExpr(_, _), PyTrailers(_, _), PyElements(_, _, _, _), PyItems(_, _, _),
          PySlices(_, _), PySliceUpper(_, _), PySliceStep(_, _), PySliceEnd(_, _)

\* the display of kind t whose elements were read as els
PyDisplay(els, t) == IF els.ok THEN Noded(els.pos, Ast(t, els.node)) ELSE NoNode

\* a display in braces whose first expression, at q, was read as first: a
\* dict when a colon follows it, else a set
PyBraces(x, q, first) ==
    IF ~first.ok THEN NoNode
    ELSE IF AtomAt(x, SkipWs(x, first.pos)) = ":"
         THEN PyDisplay(PyItems(x, q, <<>>), "dict")
    ELSE PyDisplay(PyElements(x, q, "}", <<>>), "set")

\* an atom: a string, a number, an identifier, a list, a dict or a set
PyAtom(x, p) ==
    LET c == AtomAt(x, p)
        q == SkipWs(x, p + 1)
    IN  IF c \in Quotes THEN PyStrings(x, p, <<>>)
        ELSE IF c \in WordAtoms THEN PyWord(x, p)
        ELSE IF c = "[" THEN
            IF AtomAt(x, q) = "]" THEN Noded(q + 1, Ast("list", <<>>))
            ELSE PyDisplay(PyElements(x, q, "]", <<>>), "list")
        ELSE IF c = "{" THEN
            IF AtomAt(x, q) = "}" THEN Noded(q + 1, Ast("dict", <<>>))
            ELSE PyBraces(x, q, PyExpr(x, q))
        ELSE NoNode

\* an expression: an atom and the subscripts that follow it
PyExpr(x, p) == PyTrailers(x, PyAtom(x, p))

\* the expression subscripted by a subscript list that ends before after
PySubscripted(x, after) ==
    IF after = 0 THEN NoNode ELSE PyTrailers(x, Noded(after, Ast("subscript", <<>>)))

\* the subscripts that follow the expression e
PyTrailers(x, e) ==
    IF ~e.ok THEN NoNode
    ELSE IF AtomAt(x, SkipWs(x, e.pos)) # "["  THEN e
    ELSE PySubscripted(x, PySlices(x, SkipWs(x, SkipWs(x, e.pos) + 1)))

\* after the element el of a display: the closing atom, or a comma and
\* either the closing atom or the next element
PyElementsAfter(x, closing, ns, el) ==
    LET q == SkipWs(x, el.pos)
        r == SkipWs(x, q + 1)
    IN  IF ~el.ok THEN NoNode
        ELSE IF AtomAt(x, q) = closing THEN Noded(q + 1, Append(ns, el.node))
        ELSE IF AtomAt(x, q) # "," THEN NoNode
        ELSE IF AtomAt(x, r) = closing THEN Noded(r + 1, Append(ns, el.node))
        ELSE PyElements(x, r, closing, Append(ns, el.node))

\* the expressions from the one at p to the closing atom, separated by commas,
\* a comma allowed before the closing atom; ns are those read before
PyElements(x, p, closing, ns) == PyElementsAfter(x, closing, ns, PyExpr(x, p))

\* after the item key: val of a dict display
PyItemsAfter(x, its, key, val) ==
    LET q    == SkipWs(x, val.pos)
        r    == SkipWs(x, q + 1)
        item == [key |-> key.node, value |-> val.node]
    IN  IF ~val.ok THEN NoNode
        ELSE IF AtomAt(x, q) = "}" THEN Noded(q + 1, Append(its, item))
        ELSE IF AtomAt(x, q) # "," THEN NoNode
        ELSE IF AtomAt(x, r) = "}" THEN Noded(r + 1, Append(its, item))
        ELSE PyItems(x, r, Append(its, item))

\* after the key of an item of a dict display: the colon and the value
PyItemValue(x, its, key) ==
    LET colon == SkipWs(x, key.pos) IN
    IF ~key.ok \/ AtomAt(x, colon) # ":" THEN NoNode
    ELSE PyItemsAfter(x, its, key, PyExpr(x, SkipWs(x, colon + 1)))

\* the key: value items of a dict display from the one at p
PyItems(x, p, its) == PyItemValue(x, its, PyExpr(x, p))

\* after the expression e that opens a subscript
PyLowerAfter(x, e) ==
    IF ~e.ok THEN 0
    ELSE IF AtomAt(x, SkipWs(x, e.pos)) = ":"
         THEN PySliceUpper(x, SkipWs(x, SkipWs(x, e.pos) + 1))
    ELSE PySliceEnd(x, SkipWs(x, e.pos))

\* The subscript list that starts at p, up to its closing bracket: the
\* position after the bracket, 0 if there is no well-formed list.  A
\* subscript is an expression or a slice [lower] : [upper] [: [step]].
PySlices(x, p) ==
    IF AtomAt(x, p) = ":" THEN PySliceUpper(x, SkipWs(x, p + 1))
    ELSE PyLowerAfter(x, PyExpr(x, p))

\* after the upper bound e of a slice
PyUpperAfter(x, e) ==
    IF ~e.ok THEN 0
    ELSE IF AtomAt(x, SkipWs(x, e.pos)) = ":"
         THEN PySliceStep(x, SkipWs(x, SkipWs(x, e.pos) + 1))
    ELSE PySliceEnd(x, SkipWs(x, e.pos))

\* after the first colon of a slice
PySliceUpper(x, p) ==
    IF AtomAt(x, p) = ":" THEN PySliceStep(x, SkipWs(x, p + 1))
    ELSE IF AtomAt(x, p) \in {",", "]"} THEN PySliceEnd(x, p)
    ELSE PyUpperAfter(x, PyExpr(x, p))

\* after the step e of a slice
PyStepAfter(x, e) == IF e.ok THEN PySliceEnd(x, SkipWs(x, e.pos)) ELSE 0

\* after the second colon of a slice
PySliceStep(x, p) ==
    IF AtomAt(x, p) \in {",", "]"} THEN PySliceEnd(x, p)
    ELSE PyStepAfter(x, PyExpr(x, p))

\* after a subscript: the closing bracket, or a comma and the next subscript
PySliceEnd(x, p) ==
    IF AtomAt(x, p) = "]" THEN p + 1
    ELSE IF AtomAt(x, p) # "," THEN 0
    ELSE IF AtomAt(x, SkipWs(x, p + 1)) = "]" THEN SkipWs(x, p + 1) + 1
    ELSE PySlices(x, SkipWs(x, p + 1))

RECURSIVE PyTupleRest(_, _, _)

\* after the element el of a tuple without parentheses
PyTupleAfter(x, ns, el) ==
    LET q == SkipWs(x, el.pos)
        r == SkipWs(x, q + 1)
    IN  IF ~el.ok THEN NoNode
        ELSE IF q > Len(x) THEN Noded(q, Append(ns, el.node))
        ELSE IF AtomAt(x, q) # "," THEN NoNode
        ELSE IF r > Len(x) THEN Noded(r, Append(ns, el.node))
        ELSE PyTupleRest(x, r, Append(ns, el.node))

\* the expressions of a tuple without parentheses, from the one at p to the
\* end of the text
PyTupleRest(x, p, ns) == PyTupleAfter(x, ns, PyExpr(x, p))

\* the whole text from p, whose first expression was read as e
PyParseAfter(x, p, e) ==
    LET q == SkipWs(x, e.pos) IN
    IF ~e.ok THEN NoNode
    ELSE IF q > Len(x) THEN e
    ELSE IF AtomAt(x, q) # "," THEN NoNode
    ELSE PyDisplay(PyTupleRest(x, p, <<>>), "tuple")

\* the expression the whole text is, from position p
PyParse(x, p) == PyParseAfter(x, p, PyExpr(x, p))

Converted(v) == [st |-> "ok", value |-> v]

Failed(e) == [st |-> e, value |-> PyNone]

RECURSIVE PyConvert(_), PyConvertAll(_, _, _, _), PyConvertItems(_, _, _)

\* _convert(node)
PyConvert(n) ==
    IF n.t = "const" THEN Converted(n.v)
    ELSE IF n.t = "list" THEN
        LET r == PyConvertAll(n.v, 1, <<>>, FALSE)
        IN  IF r.st = "ok" THEN Converted(PyValue("list", r.value)) ELSE r
    ELSE IF n.t = "tuple" THEN
        LET r == PyConvertAll(n.v, 1, <<>>, FALSE)
        IN  IF r.st = "ok" THEN Converted(PyValue("tuple", r.value)) ELSE r
    ELSE IF n.t = "set" THEN
        LET r == PyConvertAll(n.v, 1, <<>>, TRUE)
        IN  IF r.st = "ok" THEN Converted(PyValue("set", r.value)) ELSE r
    ELSE IF n.t = "dict" THEN
        LET r == PyConvertItems(n.v, 1, <<>>)
        IN  IF r.st = "ok" THEN Converted(PyValue("dict", r.value)) ELSE r
    ELSE Failed("ValueError")

\* the values of the nodes ns from the k-th on, after the values vs; hashed
\* when they are added to a set
PyConvertAll(ns, k, vs, hashed) ==
    IF k > Len(ns) THEN Converted(vs)
    ELSE LET r == PyConvert(ns[k]) IN
         IF r.st # "ok" THEN r
         ELSE IF hashed /\ ~Hashable(r.value) THEN Failed("TypeError")
         ELSE IF hashed THEN PyConvertAll(ns, k + 1, SetAdd(vs, r.value), hashed)
         ELSE PyConvertAll(ns, k + 1, Append(vs, r.value), hashed)

\* dict(zip(keys, values)): key, value, then the store, item by item
PyConvertItems(its, k, items) ==
    IF k > Len(its) THEN Converted(items)
    ELSE LET key == PyConvert(its[k].key)
             val == PyConvert(its[k].value)
         IN  IF key.st # "ok" THEN key
             ELSE IF val.st # "ok" THEN val
             ELSE IF ~Hashable(key.value) THEN Failed("TypeError")
             ELSE PyConvertItems(its, k + 1, DictPut(items, key.value, val.value))

\* ast.literal_eval(x): [st, value] with st "ok", "SyntaxError", "ValueError"
\* or "TypeError".  Leading spaces are stripped before the parse when lstrip
\* holds (Python 3.10 and later); otherwise they are an unexpected indent.
LiteralEval(x, lstrip) ==
    LET start == IF lstrip THEN SkipWs(x, 1) ELSE 1
        tree  == PyParse(x, start)
    IN  IF start > Len(x) \/ ~tree.ok THEN Failed("SyntaxError")
        ELSE PyConvert(tree.node)

(***************************************************************************)
(* The cells safe_json_loads is run on: every text of at most MaxTextLen    *)
(* atoms, the texts below, and the cells that are no text.  A cell is what  *)
(* pd.read_csv or an earlier parse left in the column: NaN (an empty        *)
(* field), a number (a column of numbers only), a text, or a list (a cell   *)
(* that was parsed before).                                                 *)
(***************************************************************************)
Text(x) == [k |-> "str", v |-> x]

RECURSIVE TextsUpTo(_)
TextsUpTo(n) ==
    IF n = 0 THEN {<<>>}
    ELSE LET S == TextsUpTo(n - 1)
         IN  S \cup {Append(t, a) : t \in {u \in S : Len(u) = n - 1}, a \in Atoms}

\* the texts of more than MaxTextLen atoms, each shown above its atoms
LongTexts ==
    { (* [{"id": 1, "a": "ad"}]   the shape of the cells of test_parse_json_fields *)
      <<"[", "{", "\"", "i", "d", "\"", ":", " ", "1", ",", " ", "\"", "a", "\"", ":",
        " ", "\"", "a", "d", "\"", "}", "]">>,
      (* [{'id': 1}] *)
      <<"[", "{", "'", "i", "d", "'", ":", " ", "1", "}", "]">>,
      (* [{'id': None}] *)
      <<"[", "{", "'", "i", "d", "'", ":", " ", "None", "}", "]">>,
      (* ['a"d'] *)
      <<"[", "'", "a", "\"", "d", "'", "]">>,
      (* [{"id": 1},] *)
      <<"[", "{", "\"", "i", "d", "\"", ":", " ", "1", "}", ",", "]">>,
      (* [1,]   with a leading space *)
      <<" ", "[", "1", ",", "]">>,
      (* {"a":true,} *)
      <<"{", "\"", "a", "\"", ":", "true", ",", "}">>,
      (* {"a":[null,]} *)
      <<"{", "\"", "a", "\"", ":", "[", "null", ",", "]", "}">>,
      (* [{"a":null,}] *)
      <<"[", "{", "\"", "a", "\"", ":", "null", ",", "}", "]">>,
      (* {"a":{"d":null,},} *)
      <<"{", "\"", "a", "\"", ":", "{", "\"", "d", "\"", ":", "null", ",", "}", ",", "}">>,
      (* {"a":null,},} *)
      <<"{", "\"", "a", "\"", ":", "null", ",", "}", ",", "}">>,
      (* {[1]: 2} *)
      <<"{", "[", "1", "]", ":", " ", "2", "}">>,
      (* [{"id": 1}, {[1]}] *)
      <<"[", "{", "\"", "i", "d", "\"", ":", " ", "1", "}", ",", " ", "{", "[", "1", "]",
        "}", "]">>,
      (* a d *)
      <<"a", " ", "d">> }

Texts == TextsUpTo(MaxTextLen) \cup LongTexts

\* the cells; Mapping is {"id": 1} as a value
Cells ==
    LET Mapping ==
            PyValue("dict", <<[key |-> PyValue("str", <<"i", "d">>),
                               value |-> PyValue("int", <<"1">>)]>>)
        Lists   == {<<>>, <<Mapping>>, <<PyNone>>, <<Mapping, Mapping>>}
    IN  {[k |-> "nan", v |-> <<>>], [k |-> "number", v |-> <<>>]}
        \cup {Text(x) : x \in Texts}
        \cup {[k |-> "list", v |-> vs] : vs \in Lists}

(***************************************************************************)
(* parse_json_fields: safe_json_loads applied to the cells of a column.     *)
(***************************************************************************)
NoCell == [k |-> "none", v |-> <<>>]

NoResult == [st |-> "none", value |-> PyNone]

Returns(v) == [st |-> "returned", value |-> v]

\* x.replace(old, new)
RECURSIVE ReplaceFrom(_, _, _, _)
ReplaceFrom(x, p, old, new) ==
    IF p > Len(x) THEN <<>>
    ELSE IF p + Len(old) - 1 <= Len(x) /\ SubSeq(x, p, p + Len(old) - 1) = old
         THEN new \o ReplaceFrom(x, p + Len(old), old, new)
    ELSE <<x[p]>> \o ReplaceFrom(x, p + 1, old, new)

Replace(x, old, new) == ReplaceFrom(x, 1, old, new)

\* x.endswith(suffix)
EndsWith(x, suffix) ==
    Len(x) >= Len(suffix) /\ SubSeq(x, Len(x) - Len(suffix) + 1, Len(x)) = suffix

\* the second attempt's text: x.replace("'", '"')
QuoteFixed(x) == Replace(x, <<"'">>, <<"\"">>)

\* The fourth attempt: the text the trailing-comma repair parses, <<>> with
\* applies FALSE when the text ends with neither ',]}' nor ',}'.
CommaFixed(x) ==
    IF EndsWith(x, <<",", "]", "}">>)
    THEN [applies |-> TRUE, text |-> Replace(x, <<",", "]", "}">>, <<"]", "}">>)]
    ELSE IF EndsWith(x, <<",", "}">>)
    THEN [applies |-> TRUE, text |-> Replace(x, <<",", "}">>, <<"}">>)]
    ELSE [applies |-> FALSE, text |-> <<>>]

\* Mutant of NextAttempt: the Python literal tried before the quote fix.
NextAttemptSwapped(a) ==
    IF a = "json" THEN "literal"
    ELSE IF a = "literal" THEN "quotes"
    ELSE "comma"

\* The order of the nested try blocks: the attempt made when attempt a has
\* failed with an exception its except clause names.
NextAttempt(a) ==
    IF a = "json" THEN "quotes"
    ELSE IF a = "quotes" THEN "literal"
    ELSE "comma"

\* safe_json_loads returns v: the cell is done
Return_(v) ==
    /\ result' = Returns(v)
    /\ pc' = "cell_returned"
    /\ UNCHANGED error

Raise_(e) ==
    /\ result' = NoResult
    /\ pc' = "raised"
    /\ error' = e

Goto(label) ==
    /\ pc' = label
    /\ UNCHANGED <<result, error>>

transformVars ==
    <<df, i, movies, persons, genres, keywords, companies, acted_in, directed,
      produced, categorized_as, tagged_with, transformed_data, extractVars, conn>>

\* df[col].apply(safe_json_loads): the call on the next cell of the column
Apply ==
    /\ pc = "apply"
    /\ cells_left > 0
    /\ \E x \in Cells : cell' = x
    /\ cells_left' = cells_left - 1
    /\ attempts' = <<>>
    /\ warned' = FALSE
    /\ result' = NoResult
    /\ pc' = "isna"
    /\ UNCHANGED <<transformVars, py310, error>>

\* if pd.isna(x): return [].  The truth value of the array that pd.isna gives
\* for a list is that of its element when it has one, an error when it has
\* two or more, and False or an error (NumPy 2.2 and later) when it has none.
IsNa ==
    /\ pc = "isna"
    /\ IF cell.k = "nan" THEN Return_(PyValue("list", <<>>))
       ELSE IF cell.k # "list" THEN Goto("islist")
       ELSE IF Len(cell.v) = 0 THEN Goto("islist") \/ Raise_("ValueError")
       ELSE IF Len(cell.v) = 1
            THEN IF cell.v[1].t = "None" THEN Return_(PyValue("list", <<>>)) ELSE Goto("islist")
       ELSE Raise_("ValueError")
    /\ UNCHANGED <<transformVars, cell, cells_left, attempts, warned, py310>>

\* if isinstance(x, list): return x
IsList ==
    /\ pc = "islist"
    /\ IF cell.k = "list" THEN Return_(PyValue("list", cell.v)) ELSE Goto("json")
    /\ UNCHANGED <<transformVars, cell, cells_left, attempts, warned, py310>>

\* first attempt: json.loads(x); only a JSONDecodeError is caught
TryJson ==
    /\ pc = "json"
    /\ attempts' = Append(attempts, "json")
    /\ IF cell.k # "str" THEN Raise_("TypeError")
       ELSE IF JsonLoads(cell.v).st = "ok" THEN Return_(JsonLoads(cell.v).value)
       ELSE Goto(NextAttempt("json"))
    /\ UNCHANGED <<transformVars, cell, cells_left, warned, py310>>

\* second attempt: json.loads(x.replace("'", '"'))
TryQuotes ==
    /\ pc = "quotes"
    /\ attempts' = Append(attempts, "quotes")
    /\ IF JsonLoads(QuoteFixed(cell.v)).st = "ok"
       THEN Return_(JsonLoads(QuoteFixed(cell.v)).value)
       ELSE Goto(NextAttempt("quotes"))
    /\ UNCHANGED <<transformVars, cell, cells_left, warned, py310>>

\* third attempt: ast.literal_eval(x); SyntaxError and ValueError are caught
TryLiteral ==
    /\ pc = "literal"
    /\ attempts' = Append(attempts, "literal")
    /\ LET r == LiteralEval(cell.v, py310) IN
       IF r.st = "ok" THEN Return_(r.value)
       ELSE IF r.st \in {"SyntaxError", "ValueError"} THEN Goto(NextAttempt("literal"))
       ELSE Raise_(r.st)
    /\ UNCHANGED <<transformVars, cell, cells_left, warned, py310>>

\* fourth attempt: the trailing-comma repair, else the warning and []
TryComma ==
    /\ pc = "comma"
    /\ attempts' = Append(attempts, "comma")
    /\ LET fix == CommaFixed(cell.v) IN
       IF fix.applies /\ JsonLoads(fix.text).st = "ok"
       THEN warned' = FALSE /\ Return_(JsonLoads(fix.text).value)
       ELSE warned' = TRUE /\ Return_(PyValue("list", <<>>))
    /\ UNCHANGED <<transformVars, cell, cells_left, py310>>

\* apply stores the returned value in the new column and moves on
NextCell ==
    /\ pc = "cell_returned"
    /\ pc' = "apply"
    /\ cell' = NoCell
    /\ attempts' = <<>>
    /\ result' = NoResult
    /\ warned' = FALSE
    /\ UNCHANGED <<transformVars, cells_left, py310, error>>

\* return df
Parsed_ ==
    /\ pc = "apply"
    /\ cells_left = 0
    /\ pc' = "parsed"
    /\ UNCHANGED <<transformVars, cell, cells_left, attempts, result, warned, py310,
                   error>>

ParseInit ==
    /\ df = <<>>
    /\ TransformInit
    /\ pc = "apply"
    /\ error = "none"
    /\ cell = NoCell
    /\ cells_left \in 0..MaxCells
    /\ attempts = <<>>
    /\ result = NoResult
    /\ warned = FALSE
    /\ py310 \in BOOLEAN
    /\ files = {}
    /\ movies_df = [columns |-> <<>>, rows |-> <<>>]
    /\ credits_df = [columns |-> <<>>, rows |-> <<>>]
    /\ reads = {}
    /\ output = [found |-> "unseen", made |-> {}, files |-> <<>>]
    /\ conn = [block |-> "none", calls |-> <<>>]

ParseNext ==
    \/ Apply
    \/ IsNa
    \/ IsList
    \/ TryJson
    \/ TryQuotes
    \/ TryLiteral
    \/ TryComma
    \/ NextCell
    \/ Parsed_

ParseSpec == ParseInit /\ [][ParseNext]_vars

(***************************************************************************)
(* extract_data.  A source is a table: the columns of its header, in        *)
(* order, and its lines, each a mapping from the columns to the cells.  The *)
(* embedded columns are written as the lists safe_json_loads makes of       *)
(* their cells (ParseSpec).  No column but id and title is in both sources. *)
(***************************************************************************)
Table(columns, rows) == [columns |-> columns, rows |-> rows]

\* the columns of a line of the movies file, without its id
MovieParts ==
    LET MoviePart(sc, g, kw, co) ==
            [scalars |-> sc, genres |-> g, keywords |-> kw, production_companies |-> co]
    IN  { MoviePart(ScalarsA, <<Action>>, <<Hero>>, <<Studio>>),
          MoviePart(ScalarsB, <<Action2, Drama>>, <<>>, <<>>) }

\* the columns of a line of the credits file, without its key
CreditParts ==
    LET CreditPart(title, cast, crew) == [title |-> title, cast |-> cast, crew |-> crew]
    IN  { CreditPart("Test Movie", CastDistinct(1), <<Director(2, "Test Director")>>),
          CreditPart("Credits Title", CastDistinct(TopCast + 1), <<>>) }

\* a line of the movies file that has every column
MovieLine(id, part) ==
    [id |-> id, title |-> part.scalars.title,
     release_date |-> part.scalars.release_date, budget |-> part.scalars.budget,
     revenue |-> part.scalars.revenue, popularity |-> part.scalars.popularity,
     vote_average |-> part.scalars.vote_average, vote_count |-> part.scalars.vote_count,
     overview |-> part.scalars.overview, genres |-> part.genres,
     keywords |-> part.keywords, production_companies |-> part.production_companies]

\* a line of the credits file; id is the value of its key column, whatever
\* the header names it
CreditLine(id, part) ==
    [movie_id |-> id, id |-> id, film_id |-> id, title |-> part.title,
     cast |-> part.cast, crew |-> part.crew]

\* The headers of the two sources: those of the TMDB files, the credits key
\* named id, both movie_id and id, neither; no title in the credits, none
\* in the movies; no scalar column but id; no genres and no crew; no id in
\* the movies.
Schemas ==
    LET MovieColumns ==
            <<"id", "title", "release_date", "budget", "revenue", "popularity",
              "vote_average", "vote_count", "overview", "genres", "keywords",
              "production_companies">>
        Without(columns, c) == SelectSeq(columns, LAMBDA x : x # c)
        S(m, c) == [movies |-> m, credits |-> c]
    IN  { S(MovieColumns, <<"movie_id", "title", "cast", "crew">>),
          S(MovieColumns, <<"id", "title", "cast", "crew">>),
          S(MovieColumns, <<"movie_id", "id", "title", "cast", "crew">>),
          S(MovieColumns, <<"film_id", "title", "cast", "crew">>),
          S(MovieColumns, <<"movie_id", "cast", "crew">>),
          S(Without(MovieColumns, "title"), <<"movie_id", "title", "cast", "crew">>),
          S(<<"id", "genres", "keywords", "production_companies">>,
            <<"movie_id", "cast", "crew">>),
          S(Without(MovieColumns, "genres"), <<"movie_id", "title", "cast">>),
          S(Without(MovieColumns, "id"), <<"movie_id", "title", "cast", "crew">>) }

MovieTables ==
    LET MovieLines == {MovieLine(id, part) : id \in MovieIds, part \in MovieParts}
        Lines      == UNION {[1..n -> MovieLines] : n \in 0..MaxLines}
        Restrict(r, columns) == [c \in {columns[k] : k \in DOMAIN columns} |-> r[c]]
    IN  { Table(s.movies, [k \in DOMAIN rows |-> Restrict(rows[k], s.movies)]) :
              s \in Schemas, rows \in Lines }

CreditTables ==
    LET CreditLines == {CreditLine(id, part) : id \in MovieIds, part \in CreditParts}
        Lines       == UNION {[1..n -> CreditLines] : n \in 0..MaxLines}
        Restrict(r, columns) == [c \in {columns[k] : k \in DOMAIN columns} |-> r[c]]
    IN  { Table(s.credits, [k \in DOMAIN rows |-> Restrict(rows[k], s.credits)]) :
              s \in Schemas, rows \in Lines }

\* Mutant of FilesRead: the movies file is read as soon as it is found.
FilesReadEarly(found) == found \cap {"movies"}

\* The files pd.read_csv has read when the existence checks are over: both
\* checks come before both reads.
FilesRead(found) == IF {"movies", "credits"} \subseteq found THEN {"movies", "credits"} ELSE {}

\* Mutant of IdColumnInCredits: id is looked for first.
IdColumnIdFirst(columns) ==
    IF \E k \in DOMAIN columns : columns[k] = "id" THEN "id"
    ELSE IF \E k \in DOMAIN columns : columns[k] = "movie_id" THEN "movie_id"
    ELSE "None"

\* id_column_in_credits: movie_id if the credits have it, else id, else None
IdColumnInCredits(columns) ==
    IF \E k \in DOMAIN columns : columns[k] = "movie_id" THEN "movie_id"
    ELSE IF \E k \in DOMAIN columns : columns[k] = "id" THEN "id"
    ELSE "None"

\* credits_df.rename(columns={key: 'id'}, inplace=True): the header keeps its
\* length, so a header with both movie_id and id names two columns id
RenameKey(t, key) ==
    Table([k \in DOMAIN t.columns |-> IF t.columns[k] = key THEN "id" ELSE t.columns[k]],
          [n \in DOMAIN t.rows |->
              [c \in (DOMAIN t.rows[n] \ {key}) \cup {"id"} |->
                  IF c = "id" THEN t.rows[n][key] ELSE t.rows[n][c]]])

\* A line of the merged table: the key, the columns of m and the columns of
\* c, those the two have in common under the suffixes _x and _y.
Suffixed(m, c) ==
    LET common == (DOMAIN m \cap DOMAIN c) \ {"id"}
        X(col) == IF col \in common THEN col \o "_x" ELSE col
        Y(col) == IF col \in common THEN col \o "_y" ELSE col
        left   == DOMAIN m \ {"id"}
        right  == DOMAIN c \ {"id"}
    IN  [n \in {"id"} \cup {X(col) : col \in left} \cup {Y(col) : col \in right} |->
            IF n = "id" THEN m.id
            ELSE IF \E col \in left : X(col) = n THEN m[CHOOSE col \in left : X(col) = n]
            ELSE c[CHOOSE col \in right : Y(col) = n]]

\* Mutant of FixTitle: the title of the credits file is kept.
FixTitleFromCredits(r) ==
    IF Has(r, "title_x") /\ Has(r, "title_y")
    THEN [c \in (DOMAIN r \ {"title_x", "title_y"}) \cup {"title"} |->
             IF c = "title" THEN r.title_y ELSE r[c]]
    ELSE r

\* if 'title_x' in df.columns and 'title_y' in df.columns:
\*     df['title'] = df['title_x']; df = df.drop(columns=['title_x', 'title_y'])
FixTitle(r) ==
    IF Has(r, "title_x") /\ Has(r, "title_y")
    THEN [c \in (DOMAIN r \ {"title_x", "title_y"}) \cup {"title"} |->
             IF c = "title" THEN r.title_x ELSE r[c]]
    ELSE r

\* the lines of right with the key of the line m, each joined to m
JoinLine(m, right) ==
    LET joined[j \in 0..Len(right)] ==
            IF j = 0 THEN <<>>
            ELSE IF right[j].id = m.id THEN Append(joined[j - 1], Suffixed(m, right[j]))
            ELSE joined[j - 1]
    IN  joined[Len(right)]

\* Mutant of Merge: a left join, a line of left without a match kept once.
MergeLeft(left, right, order) ==
    LET Alone(m) == [c \in DOMAIN m \cup {"cast", "crew"} |->
                        IF c \in DOMAIN m THEN m[c] ELSE <<>>]
        rows[n \in 0..Len(order)] ==
            IF n = 0 THEN <<>>
            ELSE IF JoinLine(left[order[n]], right) = <<>>
                 THEN Append(rows[n - 1], Alone(left[order[n]]))
            ELSE rows[n - 1] \o JoinLine(left[order[n]], right)
    IN  rows[Len(order)]

\* pd.merge(movies_df, credits_df, on='id'): an inner join, every line of
\* left with every line of right of the same id; the lines of left are taken
\* in the given order
Merge(left, right, order) ==
    LET rows[n \in 0..Len(order)] ==
            IF n = 0 THEN <<>> ELSE rows[n - 1] \o JoinLine(left[order[n]], right)
    IN  rows[Len(order)]

\* The orders pd.merge gives the lines of the join: that of the lines of
\* left (pandas 2.2 and later), or that with the lines of one key together,
\* the keys in the order of their first lines (before).
MergeOrders(left) ==
    LET LeftOrder == [k \in 1..Len(left) |-> k]
        group[k \in 0..Len(left)] ==
            IF k = 0 THEN <<>>
            ELSE IF \E j \in 1..(k - 1) : left[j].id = left[k].id THEN group[k - 1]
            ELSE group[k - 1] \o SelectSeq(LeftOrder, LAMBDA j : left[j].id = left[k].id)
    IN  {LeftOrder, group[Len(left)]}

\* What pd.merge raises for the headers left and right: a KeyError when left
\* has no column id, a ValueError when right has more than one.
MergeError(left, right) ==
    IF \A k \in DOMAIN left : left[k] # "id" THEN "KeyError"
    ELSE IF Cardinality({k \in DOMAIN right : right[k] = "id"}) > 1 THEN "ValueError"
    ELSE "none"

required_columns ==
    <<"id", "title", "release_date", "budget", "revenue", "popularity", "vote_average",
      "vote_count", "overview">>

\* Mutant of Default: the empty string for every text column.
DefaultEmptyTitle(col) ==
    IF col \in {"title", "release_date", "overview"} THEN ""
    ELSE IF col \in {"budget", "revenue", "popularity", "vote_average", "vote_count"} THEN 0
    ELSE "None"

\* the value a missing required column is filled with
Default(col) ==
    IF col = "title" THEN "Unknown Title"
    ELSE IF col \in {"release_date", "overview"} THEN ""
    ELSE IF col \in {"budget", "revenue", "popularity", "vote_average", "vote_count"} THEN 0
    ELSE "None"

\* for col in missing_columns: df[col] = default
AddDefaults(r) ==
    [c \in DOMAIN r \cup {required_columns[k] : k \in DOMAIN required_columns} |->
        IF Has(r, c) THEN r[c] ELSE Default(c)]

\* Mutant of ExtractRaises: run_etl goes on to load_data after the failure.
ExtractGoesOn(e) ==
    /\ pc' = "returned"
    /\ error' = e
    /\ UNCHANGED df

\* raise, out of extract_data and out of run_etl
ExtractRaises(e) ==
    /\ pc' = "raised"
    /\ error' = e
    /\ UNCHANGED df

\* extract_data, from the existence checks to return df
Extract ==
    /\ pc = "extract"
    /\ reads' = FilesRead(files)
    /\ IF ~({"movies", "credits"} \subseteq files)
       THEN ExtractRaises("FileNotFoundError") /\ UNCHANGED credits_df
       ELSE IF IdColumnInCredits(credits_df.columns) = "None"
       THEN ExtractRaises("ValueError") /\ UNCHANGED credits_df
       ELSE LET renamed == RenameKey(credits_df, IdColumnInCredits(credits_df.columns))
                failure == MergeError(movies_df.columns, renamed.columns)
            IN  /\ credits_df' = renamed
                /\ IF failure # "none" THEN ExtractRaises(failure)
                   ELSE /\ \E order \in MergeOrders(movies_df.rows) :
                              LET merged == Merge(movies_df.rows, renamed.rows, order)
                              IN  df' = [k \in 1..Len(merged) |->
                                            AddDefaults(FixTitle(merged[k]))]
                        /\ pc' = "transform"
                        /\ UNCHANGED error
    /\ UNCHANGED <<files, movies_df, output, parseVars, i, movies, persons, genres,
                   keywords, companies, acted_in, directed, produced, categorized_as,
                   tagged_with, transformed_data, conn>>

\* What the run has done to the output directory: how load_data found it,
\* the directories it made and the files it wrote, in the order it wrote them.
NoOutput == [found |-> "unseen", made |-> {}, files |-> <<>>]

\* the ten collections in the order load_data writes them
Collections ==
    <<"movies", "persons", "genres", "keywords", "companies", "acted_in", "directed",
      "produced", "categorized_as", "tagged_with">>

\* the keys of the dicts of a collection, in the order of the dict literal
\* that makes them
KeysOf(name) ==
    CASE name = "movies" -> <<"id", "title", "release_date", "budget", "revenue",
                              "popularity", "vote_average", "vote_count", "overview">>
      [] name = "persons" -> <<"id", "name", "gender", "profile_path">>
      [] name = "genres" -> <<"id", "name">>
      [] name = "keywords" -> <<"id", "name">>
      [] name = "companies" -> <<"id", "name", "origin_country">>
      [] name = "acted_in" -> <<"person_id", "movie_id", "character", "order">>
      [] name = "directed" -> <<"person_id", "movie_id", "job", "department">>
      [] name = "produced" -> <<"movie_id", "company_id">>
      [] name = "categorized_as" -> <<"movie_id", "genre_id">>
      [] name = "tagged_with" -> <<"movie_id", "keyword_id">>

\* pd.DataFrame(records).to_csv(path, index=False): the columns of the frame
\* are the keys of the records in the order of the first record, and a frame
\* made of no record has no column; the file is the header line and a line
\* for each record.
CsvFile(name, records) ==
    LET header == IF records = <<>> THEN <<>> ELSE KeysOf(name)
    IN  [name |-> name \o ".csv", header |-> header,
         rows |-> [k \in DOMAIN records |->
                      [c \in DOMAIN header |-> records[k][header[c]]]]]

\* Mutant of WrittenBefore: a collection without records has no file.
WrittenNonEmpty(data, failing) ==
    LET Of(name) == IF name \in DOMAIN data.nodes THEN data.nodes[name]
                    ELSE data.relationships[name]
        all == [k \in 1..(failing - 1) |-> CsvFile(Collections[k], Of(Collections[k]))]
    IN  SelectSeq(all, LAMBDA f : f.rows # <<>>)

\* Mutant of WrittenBefore: the write that fails is given up and the next
\* file is written.
WrittenAround(data, failing) ==
    LET Of(name) == IF name \in DOMAIN data.nodes THEN data.nodes[name]
                    ELSE data.relationships[name]
        all == [k \in DOMAIN Collections |-> CsvFile(Collections[k], Of(Collections[k]))]
    IN  SelectSeq(all, LAMBDA f : \/ failing \notin DOMAIN Collections
                                  \/ f.name # Collections[failing] \o ".csv")

\* the files written when the to_csv call number failing raises: those of the
\* calls before it
WrittenBefore(data, failing) ==
    LET Of(name) == IF name \in DOMAIN data.nodes THEN data.nodes[name]
                    ELSE data.relationships[name]
    IN  [k \in 1..(failing - 1) |-> CsvFile(Collections[k], Of(Collections[k]))]

\* load_data, and the last line of run_etl.  The output directory is found
\* missing with its parent ("no_parent"), missing ("absent"), a directory
\* ("dir") or a file ("file").  failing is the call that raises: 0 is
\* os.makedirs, 1 to 10 the to_csv calls, 11 none; the first to_csv into a
\* path that is a file always raises.
Load ==
    /\ pc = "returned"
    /\ \E found \in {"no_parent", "absent", "dir", "file"}, failing \in 0..(Len(Collections) + 1) :
          /\ failing = 0 => found \in {"no_parent", "absent"}
          /\ found = "file" => failing = 1
          /\ output' = [found |-> found,
                        made  |-> IF failing = 0 THEN {}
                                  ELSE IF found = "no_parent" THEN {"parent", "dir"}
                                  ELSE IF found = "absent" THEN {"dir"}
                                  ELSE {},
                        files |-> WrittenBefore(transformed_data, failing)]
          /\ pc' = IF failing > Len(Collections) THEN "loaded" ELSE "raised"
          /\ error' = IF failing > Len(Collections) THEN error ELSE "OSError"
    /\ UNCHANGED <<df, i, movies, persons, genres, keywords, companies, acted_in,
                   directed, produced, categorized_as, tagged_with, transformed_data,
                   parseVars, files, movies_df, credits_df, reads, conn>>

\* extract_data on an input directory: a file that does not exist has no
\* table
EtlInit ==
    /\ files \in SUBSET {"movies", "credits"}
    /\ \E s \in Schemas :
          /\ movies_df \in IF "movies" \in files
                           THEN {t \in MovieTables : t.columns = s.movies}
                           ELSE {Table(<<>>, <<>>)}
          /\ credits_df \in IF "credits" \in files
                            THEN {t \in CreditTables : t.columns = s.credits}
                            ELSE {Table(<<>>, <<>>)}
    /\ reads = {}
    /\ output = NoOutput
    /\ conn = [block |-> "none", calls |-> <<>>]
    /\ df = <<>>
    /\ TransformInit
    /\ pc = "extract"
    /\ error = "none"
    /\ cell = NoCell
    /\ cells_left = 0
    /\ attempts = <<>>
    /\ result = NoResult
    /\ warned = FALSE
    /\ py310 = TRUE

EtlNext ==
    \/ Extract
    \/ ProcessRow
    \/ Return

EtlSpec == EtlInit /\ [][EtlNext]_vars

\* run_etl on an input directory and an output directory
RunInit ==
    /\ EtlInit
    /\ Len(movies_df.rows) <= MaxRunLines
    /\ Len(credits_df.rows) <= MaxRunLines

RunNext ==
    \/ Extract
    \/ ProcessRow
    \/ Return
    \/ Load

RunSpec == RunInit /\ [][RunNext]_vars

(***************************************************************************)
(* Neo4jConnection (src/movie_graph/db/connection.py).  conn.calls is what   *)
(* a mock of the driver and a trace of the client would record: each call   *)
(* of the client on the connection, followed by the calls the method makes  *)
(* on the driver.  conn.block is "none" before the connection is made,      *)
(* "plain" when it is made outside a with statement, "inside" in the block  *)
(* of a with statement and "left" after it.                                 *)
(***************************************************************************)
\* the connection after the client's call, which makes the calls made
Called(block, call, made) ==
    /\ conn' = [block |-> block, calls |-> conn.calls \o <<call>> \o made]
    /\ UNCHANGED <<df, pc, i, movies, persons, genres, keywords, companies, acted_in,
                   directed, produced, categorized_as, tagged_with, transformed_data,
                   error, parseVars, extractVars>>

\* conn = Neo4jConnection(uri, auth)
Connect ==
    /\ conn.block = "none"
    /\ Called("plain", "__init__", <<"GraphDatabase.driver">>)

\* with Neo4jConnection(uri, auth) as conn:
Enter ==
    /\ conn.block = "none"
    /\ Called("inside", "__init__", <<"GraphDatabase.driver", "__enter__">>)

\* conn.query(query, parameters)
Query ==
    /\ conn.block # "none"
    /\ Len(conn.calls) < 2 * MaxCalls
    /\ Called(conn.block, "query", <<"driver.session">>)

\* conn.close()
Close ==
    /\ conn.block # "none"
    /\ Len(conn.calls) < 2 * MaxCalls
    /\ Called(conn.block, "close", <<"driver.close">>)

\* Mutant of ExitCalls: the driver is closed only when the block ends normally.
ExitCallsIfNormal(exc) == IF exc THEN <<>> ELSE <<"driver.close">>

\* the calls __exit__(exc_type, exc_val, exc_tb) makes: self.close()
ExitCalls(exc) == <<"driver.close">>

\* the end of the with block, normal or by an exception
Exit ==
    /\ conn.block = "inside"
    /\ \E exc \in BOOLEAN :
          Called("left", IF exc THEN "__exit__(exception)" ELSE "__exit__(None)",
                 ExitCalls(exc))

ConnInit ==
    /\ conn = [block |-> "none", calls |-> <<>>]
    /\ pc = "client"
    /\ error = "none"
    /\ df = <<>>
    /\ TransformInit
    /\ cell = NoCell
    /\ cells_left = 0
    /\ attempts = <<>>
    /\ result = NoResult
    /\ warned = FALSE
    /\ py310 = TRUE
    /\ files = {}
    /\ movies_df = Table(<<>>, <<>>)
    /\ credits_df = Table(<<>>, <<>>)
    /\ reads = {}
    /\ output = NoOutput

ConnNext ==
    \/ Connect
    \/ Enter
    \/ Query
    \/ Close
    \/ Exit

ConnSpec == ConnInit /\ [][ConnNext]_vars

(***************************************************************************)
(* What the claims are stated over.                                         *)
(***************************************************************************)
Returned == pc = "returned"

Out == transformed_data

\* The entries of the columns cols of the first n rows of df, in the order the
\* rows, the columns and the entries are listed, each with its row number,
\* its column, its position pos in the list (1-based) and the id of the row.
OccurrencesIn(n, cols) ==
    LET OfColumn(k, col) ==
            [j \in 1..Len(df[k][col]) |->
                [row |-> k, col |-> col, pos |-> j, movie_id |-> df[k].id,
                 e |-> df[k][col][j]]]
        OfRow(k) ==
            LET cat[c \in 0..Len(cols)] ==
                    IF c = 0 THEN <<>> ELSE cat[c - 1] \o OfColumn(k, cols[c])
            IN  cat[Len(cols)]
        upto[k \in 0..n] == IF k = 0 THEN <<>> ELSE upto[k - 1] \o OfRow(k)
    IN  upto[n]

Occurrences(cols) == OccurrencesIn(Len(df), cols)

\* The cast and crew entries from which a Person is stored: the cast entries
\* at positions 0..9 and the crew entries whose job is "Director".
Stored(o) ==
    \/ o.col = "cast" /\ o.pos <= 10
    \/ o.col = "crew" /\ Has(o.e, "job") /\ o.e.job = "Director"

\* Those of the first n rows, in the order they are processed: row by row, in
\* a row the cast before the crew.
PersonOccurrencesIn(n) == SelectSeq(OccurrencesIn(n, <<"cast", "crew">>), Stored)

PersonOccurrences == PersonOccurrencesIn(Len(df))

\* the positions of id x in a sequence of occurrences
Where(occ, x) == {n \in 1..Len(occ) : Has(occ[n].e, "id") /\ occ[n].e.id = x}

Greatest(S) == CHOOSE n \in S : \A m \in S : m <= n

Least(S) == CHOOSE n \in S : \A m \in S : n <= m

NoSharedId(recs) ==
    \A a, b \in 1..Len(recs) : a # b => recs[a].id # recs[b].id

(***************************************************************************)
(* C1: transform_data emits one Movie record per row, in row order, with    *)
(* that row's nine scalar attributes: while the loop runs the movies list   *)
(* has as many records as rows were processed, and the returned list has    *)
(* one record per row of df; rows are neither dropped nor merged.           *)
(***************************************************************************)
C1_OneMoviePerRow ==
    /\ pc # "raised" => Len(movies) = i
    /\ \A k \in 1..Len(movies) :
          movies[k] = [id |-> df[k].id, title |-> df[k].title,
                       release_date |-> df[k].release_date, budget |-> df[k].budget,
                       revenue |-> df[k].revenue, popularity |-> df[k].popularity,
                       vote_average |-> df[k].vote_average,
                       vote_count |-> df[k].vote_count, overview |-> df[k].overview]
    /\ Returned => /\ Out.nodes.movies = movies
                   /\ Len(Out.nodes.movies) = Len(df)

C1_Witness ==
    /\ Returned
    /\ Len(df) = 2
    /\ df[1].id = df[2].id
    /\ df[1].budget # df[2].budget
    /\ Len(Out.nodes.movies) = 2

(***************************************************************************)
(* C2 as stated: the record of every Person, Genre, Keyword and Company id  *)
(* equals the attributes of an occurrence of that id in the last row of df  *)
(* that contains the id (for a Person, in that row's cast or crew).         *)
(***************************************************************************)
C2_LastRowWins ==
    LET InLastRow(occ, rec, Node(_)) ==
            LET last == occ[Greatest(Where(occ, rec.id))].row
            IN  \E n \in Where(occ, rec.id) : occ[n].row = last /\ Node(occ[n].e) = rec
    IN  Returned =>
          /\ \A k \in 1..Len(Out.nodes.genres) :
                InLastRow(Occurrences(<<"genres">>), Out.nodes.genres[k], GenreNode)
          /\ \A k \in 1..Len(Out.nodes.keywords) :
                InLastRow(Occurrences(<<"keywords">>), Out.nodes.keywords[k], KeywordNode)
          /\ \A k \in 1..Len(Out.nodes.companies) :
                InLastRow(Occurrences(<<"production_companies">>), Out.nodes.companies[k],
                          CompanyNode)
          /\ \A k \in 1..Len(Out.nodes.persons) :
                InLastRow(Occurrences(<<"cast", "crew">>), Out.nodes.persons[k], PersonNode)

(***************************************************************************)
(* C2 as amended: the record of every Person, Genre, Keyword and Company id *)
(* equals the attributes of the last occurrence of that id that             *)
(* transform_data processes, where the processed occurrences are all genre, *)
(* keyword and company entries, the cast entries at positions 0 to 9 and    *)
(* the crew entries whose job is "Director", in processing order (row by    *)
(* row, within a row the cast before the crew, within a list source order); *)
(* and every processed id has a record.                                     *)
(***************************************************************************)
C2_LastProcessedWins ==
    LET LastWins(occ, recs, Node(_)) ==
            /\ \A k \in 1..Len(recs) :
                  /\ Where(occ, recs[k].id) # {}
                  /\ recs[k] = Node(occ[Greatest(Where(occ, recs[k].id))].e)
            /\ \A n \in 1..Len(occ) : \E k \in 1..Len(recs) : recs[k].id = occ[n].e.id
    IN  Returned =>
          /\ LastWins(Occurrences(<<"genres">>), Out.nodes.genres, GenreNode)
          /\ LastWins(Occurrences(<<"keywords">>), Out.nodes.keywords, KeywordNode)
          /\ LastWins(Occurrences(<<"production_companies">>), Out.nodes.companies, CompanyNode)
          /\ LastWins(PersonOccurrences, Out.nodes.persons, PersonNode)

C2_Witness ==
    /\ Returned
    /\ Len(df) = 2
    /\ df[1].genres = <<Action>>
    /\ df[2].genres = <<Action2, Drama>>
    /\ Out.nodes.genres = <<Action2, Drama>>
    /\ df[1].cast = <<Actor(1, 1)>>
    /\ df[2].cast = <<>>
    /\ Out.nodes.persons[1].name = "Test Actor"

(***************************************************************************)
(* C3 as stated: for every row of df, the ACTED_IN edges of the output      *)
(* whose movie_id is the row's id number min(10, number of cast entries of  *)
(* the row), and for each i below that number exactly one of them has       *)
(* order i, and that one carries the person and character of the cast       *)
(* entry at source position i.                                              *)
(***************************************************************************)
C3_ActedInPerMovie ==
    Returned =>
      \A k \in 1..Len(df) :
        LET OfMovie(edge) == edge.movie_id = df[k].id
            E == SelectSeq(Out.relationships.acted_in, OfMovie)
            n == Min(10, Len(df[k].cast))
        IN  /\ Len(E) = n
            /\ \A o \in 0..(n - 1) :
                  /\ Cardinality({a \in 1..Len(E) : E[a].order = o}) = 1
                  /\ \A a \in 1..Len(E) :
                        E[a].order = o =>
                          /\ E[a].person_id = df[k].cast[o + 1].id
                          /\ E[a].character = df[k].cast[o + 1].character

(***************************************************************************)
(* C4: the DIRECTED edges of the output are, in order, one edge for each    *)
(* crew entry of each row whose job is exactly "Director", carrying the     *)
(* entry's person id, the row's id, and the entry's job and department; a   *)
(* crew entry at any position is scanned and an entry with any other job    *)
(* yields no edge.                                                          *)
(***************************************************************************)
C4_DirectedIffDirector ==
    LET Directs(o) == o.e.job = "Director"
        dirs == SelectSeq(Occurrences(<<"crew">>), Directs)
    IN  Returned =>
          Out.relationships.directed =
             [n \in 1..Len(dirs) |->
                 [person_id |-> dirs[n].e.id, movie_id |-> dirs[n].movie_id,
                  job |-> dirs[n].e.job, department |-> dirs[n].e.department]]

C4_Witness ==
    /\ Returned
    /\ Len(df) = 2
    /\ \E j \in 1..Len(df[1].crew) : df[1].crew[j].job = "director"
    /\ \E j \in 1..Len(df[1].crew) : df[1].crew[j].job = "Co-Director"
    /\ \E j \in 1..Len(df[1].crew) : df[1].crew[j].job = "Director"
    /\ Len(df[2].crew) > 10
    /\ df[2].crew[Len(df[2].crew)].job = "Director"
    /\ Len(Out.relationships.directed) = 2

(***************************************************************************)
(* C5: the persons, genres, keywords and companies collections never hold   *)
(* two records with the same id, during the pass and in the output; for     *)
(* the single row of test_transform_data the output has 2 persons (ids 1    *)
(* and 2), 1 genre, 1 keyword and 1 company.                                *)
(***************************************************************************)
C5_NoDuplicateEntities ==
    /\ NoSharedId(Values(persons))
    /\ NoSharedId(Values(genres))
    /\ NoSharedId(Values(keywords))
    /\ NoSharedId(Values(companies))
    /\ Returned =>
          /\ NoSharedId(Out.nodes.persons)
          /\ NoSharedId(Out.nodes.genres)
          /\ NoSharedId(Out.nodes.keywords)
          /\ NoSharedId(Out.nodes.companies)
    /\ Returned /\ df = <<Row(1, TestContent)>> =>
          /\ Len(Out.nodes.persons) = 2
          /\ {Out.nodes.persons[k].id : k \in 1..2} = {1, 2}
          /\ Len(Out.nodes.genres) = 1
          /\ Len(Out.nodes.keywords) = 1
          /\ Len(Out.nodes.companies) = 1

C5_Witness ==
    /\ Returned
    /\ df = <<Row(1, TestContent), Row(2, TestContent)>>
    /\ Len(Out.nodes.persons) = 2
    /\ Len(Out.nodes.genres) = 1
    /\ Len(Out.relationships.acted_in) = 2

(***************************************************************************)
(* C6 as stated: in the output of transform_data no two Movie records share *)
(* an id, whatever lines the two sources of extract_data hold, lines that   *)
(* repeat an id included.                                                   *)
(***************************************************************************)
C6_UniqueMovieIds == Returned => NoSharedId(Out.nodes.movies)

(***************************************************************************)
(* C7: each of persons, genres, keywords and companies lists its records    *)
(* in the order in which their ids first occur among the processed entries: *)
(* after every row of the pass the ids of a collection are the ids of the   *)
(* entries processed so far, each once, in the order of their first         *)
(* occurrence (so a later occurrence of an id never changes its position),  *)
(* and the output lists the records in that order.                          *)
(***************************************************************************)
FirstOccurrenceIds(occ) ==
    LET IsFirst(n) == \A m \in 1..(n - 1) : occ[m].e.id # occ[n].e.id
        firsts[n \in 0..Len(occ)] ==
            IF n = 0 THEN <<>>
            ELSE IF IsFirst(n) THEN Append(firsts[n - 1], occ[n].e.id)
            ELSE firsts[n - 1]
    IN  firsts[Len(occ)]

IdsOf(recs) == [k \in 1..Len(recs) |-> recs[k].id]

C7_FirstInsertionOrder ==
    /\ pc # "raised" =>
          /\ Keys(genres) = FirstOccurrenceIds(OccurrencesIn(i, <<"genres">>))
          /\ Keys(keywords) = FirstOccurrenceIds(OccurrencesIn(i, <<"keywords">>))
          /\ Keys(companies) =
                FirstOccurrenceIds(OccurrencesIn(i, <<"production_companies">>))
          /\ Keys(persons) = FirstOccurrenceIds(PersonOccurrencesIn(i))
    /\ Returned =>
          /\ IdsOf(Out.nodes.genres) = Keys(genres)
          /\ IdsOf(Out.nodes.keywords) = Keys(keywords)
          /\ IdsOf(Out.nodes.companies) = Keys(companies)
          /\ IdsOf(Out.nodes.persons) = Keys(persons)

C7_Witness ==
    /\ Returned
    /\ Len(df) = 2
    /\ df[1].genres = <<Action2, Drama>>
    /\ df[2].genres = <<Drama, Action>>
    /\ Out.nodes.genres = <<Action, Drama>>

(***************************************************************************)
(* C8: the CATEGORIZED_AS, TAGGED_WITH and PRODUCED edges of the output     *)
(* are, in order, one edge per genre, keyword and production-company entry  *)
(* of the rows, with no edge left out as a duplicate: a row that lists a    *)
(* genre twice has two equal edges and the genre once.                      *)
(***************************************************************************)
C8_OneEdgePerEntry ==
    LET g == Occurrences(<<"genres">>)
        k == Occurrences(<<"keywords">>)
        c == Occurrences(<<"production_companies">>)
    IN  Returned =>
          /\ Out.relationships.categorized_as =
                [n \in 1..Len(g) |-> [movie_id |-> g[n].movie_id, genre_id |-> g[n].e.id]]
          /\ Out.relationships.tagged_with =
                [n \in 1..Len(k) |-> [movie_id |-> k[n].movie_id, keyword_id |-> k[n].e.id]]
          /\ Out.relationships.produced =
                [n \in 1..Len(c) |-> [movie_id |-> c[n].movie_id, company_id |-> c[n].e.id]]

C8_Witness ==
    /\ Returned
    /\ Len(df) = 1
    /\ df[1].genres = <<Action, Action>>
    /\ Out.relationships.categorized_as =
          <<[movie_id |-> df[1].id, genre_id |-> 1], [movie_id |-> df[1].id, genre_id |-> 1]>>
    /\ Out.nodes.genres = <<Action>>

(***************************************************************************)
(* C9 as stated: whatever text a cell holds, parse_json_fields does not     *)
(* raise: safe_json_loads returns for the cell, the empty list with a       *)
(* warning when no attempt parses the text, and the cells after it are      *)
(* still parsed.                                                            *)
(***************************************************************************)
C9_NeverRaises == cell.k = "str" => pc # "raised"

(***************************************************************************)
(* What each parser, taken alone, makes of the text x; the repair is a      *)
(* failure for a text that ends with neither ',]}' nor ',}'.                *)
(***************************************************************************)
ParserOrder == <<"json", "quotes", "literal", "comma">>

ParserResult(a, x) ==
    IF a = "json" THEN JsonLoads(x)
    ELSE IF a = "quotes" THEN JsonLoads(QuoteFixed(x))
    ELSE IF a = "literal" THEN LiteralEval(x, py310)
    ELSE IF CommaFixed(x).applies THEN JsonLoads(CommaFixed(x).text)
    ELSE Failed("JSONDecodeError")

ParserFails(a, x) == ParserResult(a, x).st # "ok"

IsPrefix(s, t) == Len(s) <= Len(t) /\ s = SubSeq(t, 1, Len(s))

(***************************************************************************)
(* C10: on a text cell safe_json_loads attempts the parsers in the order    *)
(* strict JSON, quote-normalized JSON, Python literal, trailing-comma       *)
(* repair: the attempts made are always a prefix of that order, every       *)
(* attempt but the last made has failed, a value returned without the       *)
(* warning is the value of the last attempt made, which succeeded, and the  *)
(* warning is printed only with the empty list returned after all four      *)
(* attempts were made and failed.                                           *)
(***************************************************************************)
C10_ParserOrder ==
    cell.k = "str" =>
        /\ IsPrefix(attempts, ParserOrder)
        /\ \A k \in 1..(Len(attempts) - 1) : ParserFails(attempts[k], cell.v)
        /\ pc \in {"quotes", "literal", "comma"} =>
              /\ attempts # <<>>
              /\ ParserFails(attempts[Len(attempts)], cell.v)
        /\ pc = "cell_returned" /\ ~warned =>
              /\ attempts # <<>>
              /\ ~ParserFails(attempts[Len(attempts)], cell.v)
              /\ result = Returns(ParserResult(attempts[Len(attempts)], cell.v).value)
        /\ warned =>
              /\ pc = "cell_returned"
              /\ attempts = ParserOrder
              /\ \A k \in 1..Len(ParserOrder) : ParserFails(ParserOrder[k], cell.v)
              /\ result = Returns(PyValue("list", <<>>))

C10_Witness ==
    /\ pc = "cell_returned"
    /\ cell = Text(<<"{", "\"", "a", "\"", ":", "[", "null", ",", "]", "}">>)
    /\ attempts = ParserOrder
    /\ ~warned
    /\ result.value.t = "dict"

(***************************************************************************)
(* The text x without its trailing commas: the commas outside strings that  *)
(* are followed, spaces apart, by a closing bracket or brace.               *)
(***************************************************************************)
WithoutTrailingCommas(x) ==
    LET scan[p \in 0..Len(x)] ==
            IF p = 0 THEN [out |-> <<>>, quoted |-> FALSE]
            ELSE LET before == scan[p - 1] IN
                 IF x[p] = "\"" THEN [out |-> Append(before.out, x[p]),
                                      quoted |-> ~before.quoted]
                 ELSE IF /\ x[p] = ","
                         /\ ~before.quoted
                         /\ AtomAt(x, SkipWs(x, p + 1)) \in {"]", "}"}
                      THEN before
                 ELSE [before EXCEPT !.out = Append(@, x[p])]
    IN  scan[Len(x)].out

IsListOfMappings(v) == v.t = "list" /\ \A k \in 1..Len(v.v) : v.v[k].t = "dict"

\* x is the JSON text of a list of mappings but for trailing commas
IsTrailingCommaList(x) ==
    /\ WithoutTrailingCommas(x) # x
    /\ JsonLoads(WithoutTrailingCommas(x)).st = "ok"
    /\ IsListOfMappings(JsonLoads(WithoutTrailingCommas(x)).value)

(***************************************************************************)
(* C11 as stated: a cell whose text is a well-formed list of mappings but   *)
(* for a trailing comma before a closing bracket or brace is parsed into    *)
(* the list of mappings the text denotes: safe_json_loads does not raise    *)
(* on it and returns that list, not the empty list.                         *)
(***************************************************************************)
C11_TrailingCommaParsed ==
    cell.k = "str" /\ IsTrailingCommaList(cell.v) =>
        /\ pc # "raised"
        /\ pc = "cell_returned" =>
              result = Returns(JsonLoads(WithoutTrailingCommas(cell.v)).value)

(***************************************************************************)
(* C12 as stated: every value safe_json_loads leaves in a cell is a list of *)
(* mappings, whatever the cell held.                                        *)
(***************************************************************************)
C12_CellsAreListsOfMappings ==
    pc = "cell_returned" => IsListOfMappings(result.value)


(***************************************************************************)
(* Claims about extract_data and run_etl (EtlSpec).                         *)
(***************************************************************************)
\* extract_data has returned df: transform_data runs, or has run
Extracted ==
    \/ pc \in {"transform", "returned", "loaded"}
    \/ pc = "raised" /\ (movies # <<>> \/ error = "OSError")

\* extract_data has raised
ExtractRaised == pc = "raised" /\ movies = <<>> /\ error # "OSError"

ColumnsOf(t) == {t.columns[k] : k \in DOMAIN t.columns}

EmbeddedColumns == {"genres", "keywords", "production_companies", "cast", "crew"}

\* C13: every row extract_data returns has the nine scalar fields and the
\* five embedded fields genres, keywords, production_companies, cast and
\* crew, also when a source file lacks one of these columns.
C13_AllFourteenFields ==
    \A k \in 1..Len(df) :
        {required_columns[c] : c \in DOMAIN required_columns} \cup EmbeddedColumns
            \subseteq DOMAIN df[k]

\* C14: when the movies file or the credits file does not exist, extract_data
\* raises FileNotFoundError with no file read, and run_etl then transforms
\* nothing and writes nothing.
C14_MissingFileStopsRun ==
    files # {"movies", "credits"} =>
        /\ pc \in {"extract", "raised"}
        /\ pc = "raised" => error = "FileNotFoundError"
        /\ reads = {}
        /\ TransformInit
        /\ df = <<>>
        /\ output = NoOutput

\* the credits file is missing, the movies file is not, and the run has failed
C14_Witness == files = {"movies"} /\ movies_df.rows # <<>> /\ ExtractRaised

\* C15: once extract_data is past the key of the credits, either the credits
\* had movie_id or id and their table now has exactly one column named id
\* (also when they had both), or they had neither and extract_data has
\* raised ValueError without a join.
C15_OneKeyColumn ==
    pc # "extract" /\ files = {"movies", "credits"} =>
        IF "id" \in ColumnsOf(credits_df)
        THEN Cardinality({k \in DOMAIN credits_df.columns : credits_df.columns[k] = "id"}) = 1
        ELSE ExtractRaised /\ error = "ValueError" /\ df = <<>>

\* the number of lines of the sequence rows with the key id
LinesOf(rows, id) == Cardinality({k \in DOMAIN rows : rows[k].id = id})

\* the two files exist, the movies have the column id and the credits have
\* one key column, now named id
Joinable ==
    /\ files = {"movies", "credits"}
    /\ "id" \in ColumnsOf(movies_df)
    /\ Cardinality({k \in DOMAIN credits_df.columns : credits_df.columns[k] = "id"}) = 1

\* C16: the rows extract_data returns are the inner join of the two sources
\* on id: an id has as many rows as it has pairs of a movies line and a
\* credits line, so it is in the output iff it is in both sources, and a
\* line without a counterpart is dropped without an error.
C16_InnerJoin ==
    pc # "extract" /\ Joinable =>
        /\ Extracted
        /\ \A k \in DOMAIN df : df[k].id \in MovieIds
        /\ \A id \in MovieIds :
              LinesOf(df, id) = LinesOf(movies_df.rows, id) * LinesOf(credits_df.rows, id)

\* a movies line without a credits line has been dropped, another joined
C16_Witness ==
    /\ Extracted
    /\ df # <<>>
    /\ \E k \in DOMAIN movies_df.rows : LinesOf(credits_df.rows, movies_df.rows[k].id) = 0

\* the row r of df has every column of the movies line m, title included
FromMovieLine(r, m) == \A c \in DOMAIN m : Has(r, c) /\ r[c] = m[c]

\* C17: when both sources have the column title, every row extract_data
\* returns has the field title with the title of its movies line, and has
\* neither title_x nor title_y.
C17_TitleFromMovies ==
    Extracted /\ "title" \in ColumnsOf(movies_df) /\ "title" \in ColumnsOf(credits_df) =>
        \A k \in DOMAIN df :
            /\ \E n \in DOMAIN movies_df.rows : FromMovieLine(df[k], movies_df.rows[n])
            /\ ~Has(df[k], "title_x")
            /\ ~Has(df[k], "title_y")

\* a returned row whose credits line has another title than its movies line
C17_Witness ==
    /\ Extracted
    /\ "title" \in ColumnsOf(movies_df)
    /\ "title" \in ColumnsOf(credits_df)
    /\ \E k \in DOMAIN df, c \in DOMAIN credits_df.rows :
          credits_df.rows[c].id = df[k].id /\ credits_df.rows[c].title # df[k].title

\* the required scalar columns that neither source has
AbsentScalars ==
    {"title", "release_date", "overview", "budget", "revenue", "popularity",
     "vote_average", "vote_count"} \ (ColumnsOf(movies_df) \cup ColumnsOf(credits_df))

C19_OnlyStructuralFailures ==
    /\ files = {"movies", "credits"}
    /\ {"id", "movie_id"} \cap ColumnsOf(credits_df) # {}
    => ~ExtractRaised

(***************************************************************************)
(* Claims about nested entries that lack a key (FaultSpec).                 *)
(***************************************************************************)
\* the nested entries transform_data goes through in a row, in its order
ProcessedEntries(row) ==
    LET Tag(kind, xs) == [k \in DOMAIN xs |-> [kind |-> kind, x |-> xs[k]]]
    IN  Tag("genre", row.genres) \o Tag("keyword", row.keywords)
        \o Tag("company", row.production_companies)
        \o Tag("cast", SubSeq(row.cast, 1, Min(TopCast, Len(row.cast))))
        \o Tag("crew", row.crew)

\* the entry lacks a key transform_data reads in it
LacksKey(en) ==
    IF en.kind = "cast" THEN {"id", "name", "character"} \ DOMAIN en.x # {}
    ELSE IF en.kind = "crew"
    THEN \/ ~Has(en.x, "job")
         \/ en.x.job = "Director" /\ {"id", "name", "department"} \ DOMAIN en.x # {}
    ELSE {"id", "name"} \ DOMAIN en.x # {}

\* the place of the first entry of the row that lacks a key, 0 if none does
FirstFault(row) ==
    LET faults == {k \in DOMAIN ProcessedEntries(row) : LacksKey(ProcessedEntries(row)[k])}
    IN  IF faults = {} THEN 0 ELSE CHOOSE k \in faults : \A j \in faults : k <= j

\* the number of relationships of the kind that the first n entries of the
\* row make, none of them lacking a key
EdgesOf(kind, row, n) ==
    Cardinality({k \in 1..n :
        /\ ProcessedEntries(row)[k].kind = kind
        /\ kind = "crew" => ProcessedEntries(row)[k].x.job = "Director"})

\* the number of relationships of the kind made so far, if the rows before
\* the current one were gone through to the end and the current one, on a
\* failure, up to the entry before the first that lacks a key
EdgesSoFar(kind) ==
    LET done[k \in 0..i] ==
            IF k = 0 THEN 0
            ELSE done[k - 1] + EdgesOf(kind, df[k], Len(ProcessedEntries(df[k])))
    IN  done[i] + IF pc = "raised" THEN EdgesOf(kind, df[i + 1], FirstFault(df[i + 1]) - 1)
                  ELSE 0

\* C20: transform_data goes past no entry that lacks a key: it raises
\* KeyError at the first one, with the relationships of the entries before
\* it and of no entry or row after it, and returns nothing.
C20_FailsAtTheEntry ==
    /\ \A k \in 1..i : FirstFault(df[k]) = 0
    /\ pc = "raised" =>
          /\ error = "KeyError"
          /\ FirstFault(df[i + 1]) > 0
          /\ Len(movies) = i + 1
          /\ transformed_data = NoData
    /\ Len(categorized_as) = EdgesSoFar("genre")
    /\ Len(tagged_with) = EdgesSoFar("keyword")
    /\ Len(produced) = EdgesSoFar("company")
    /\ Len(acted_in) = EdgesSoFar("cast")
    /\ Len(directed) = EdgesSoFar("crew")

\* the second row has failed at an entry that is not its first
C20_Witness == pc = "raised" /\ i = 1 /\ FirstFault(df[2]) > 1

(***************************************************************************)
(* Claims about the optional attributes and the shape of the output (Spec). *)
(***************************************************************************)
\* the value of the optional attribute key in the record made from the
\* entry e: that of e if e has it, else the default
Optional(e, key, default) == IF Has(e, key) THEN e[key] ELSE default

\* C21: an entry without origin_country, gender or profile_path is not an
\* error; the Company record of an id has the origin_country of the last
\* company entry of that id, the empty string if the entry has none, and the
\* Person record of an id has the gender and profile_path of the last stored
\* cast or crew entry of that id, 0 and the empty string if it has none.
C21_OptionalDefaults ==
    /\ pc = "raised" => FirstFault(df[i + 1]) > 0
    /\ Returned =>
          /\ \A k \in 1..Len(Out.nodes.companies) :
                LET occ == Occurrences(<<"production_companies">>)
                    e   == occ[Greatest(Where(occ, Out.nodes.companies[k].id))].e
                IN  Out.nodes.companies[k].origin_country = Optional(e, "origin_country", "")
          /\ \A k \in 1..Len(Out.nodes.persons) :
                LET e == PersonOccurrences[
                             Greatest(Where(PersonOccurrences, Out.nodes.persons[k].id))].e
                IN  /\ Out.nodes.persons[k].gender = Optional(e, "gender", 0)
                    /\ Out.nodes.persons[k].profile_path = Optional(e, "profile_path", "")

\* a company without origin_country, a person without gender and
\* profile_path and a person with both have been returned
C21_Witness ==
    /\ Returned
    /\ \E k \in 1..Len(Out.nodes.companies) :
          /\ Out.nodes.companies[k].origin_country = ""
          /\ \A r \in 1..Len(df) : \A j \in 1..Len(df[r].production_companies) :
                ~Has(df[r].production_companies[j], "origin_country")
    /\ \E k \in 1..Len(Out.nodes.persons) :
          Out.nodes.persons[k].gender = 0 /\ Out.nodes.persons[k].profile_path = ""
    /\ \E k \in 1..Len(Out.nodes.persons) :
          Out.nodes.persons[k].gender = 1 /\ Out.nodes.persons[k].profile_path = "/a.jpg"

(***************************************************************************)
(* Claims about load_data and the stages of run_etl (RunSpec).              *)
(***************************************************************************)
\* load_data has returned
Loaded == pc = "loaded"

\* the names of the files written, in the order of their writing
FileNames == [k \in DOMAIN output.files |-> output.files[k].name]

TenFiles ==
    <<"movies.csv", "persons.csv", "genres.csv", "keywords.csv", "companies.csv",
      "acted_in.csv", "directed.csv", "produced.csv", "categorized_as.csv",
      "tagged_with.csv">>

\* C22: after load_data has returned, the output directory exists, made with
\* its missing parent if it was missing and left as it was if it was there,
\* and each of the ten files has been written, its collection empty or not.
C22_DirectoryAndTenFiles ==
    Loaded =>
        /\ output.found \in {"no_parent", "absent", "dir"}
        /\ output.made = CASE output.found = "no_parent" -> {"parent", "dir"}
                           [] output.found = "absent" -> {"dir"}
                           [] output.found = "dir" -> {}
        /\ FileNames = TenFiles

\* load_data has returned on collections of which some are empty and some
\* are not, into a directory it had to make with its parent
C22_Witness ==
    /\ Loaded
    /\ output.found = "no_parent"
    /\ transformed_data.nodes.movies # <<>>
    /\ transformed_data.relationships.directed = <<>>
    /\ transformed_data.nodes.keywords = <<>>

\* the attributes of the collection of a file, in the order of the data model
DeclaredAttributes(file) ==
    CASE file = "movies.csv" -> <<"id", "title", "release_date", "budget", "revenue",
                                  "popularity", "vote_average", "vote_count", "overview">>
      [] file = "persons.csv" -> <<"id", "name", "gender", "profile_path">>
      [] file = "genres.csv" -> <<"id", "name">>
      [] file = "keywords.csv" -> <<"id", "name">>
      [] file = "companies.csv" -> <<"id", "name", "origin_country">>
      [] file = "acted_in.csv" -> <<"person_id", "movie_id", "character", "order">>
      [] file = "directed.csv" -> <<"person_id", "movie_id", "job", "department">>
      [] file = "produced.csv" -> <<"movie_id", "company_id">>
      [] file = "categorized_as.csv" -> <<"movie_id", "genre_id">>
      [] file = "tagged_with.csv" -> <<"movie_id", "keyword_id">>

\* C23: every file load_data has written begins with the header of its
\* collection's attributes in the order of the data model, also when the
\* collection is empty and the file has no other line.
C23_HeaderInEveryFile ==
    \A k \in DOMAIN output.files :
        output.files[k].header = DeclaredAttributes(output.files[k].name)

\* load_data has raised
LoadRaised == pc = "raised" /\ error = "OSError"

\* C24: when a write of load_data fails, the files written are those before
\* it in the write order, each once, and none after it, and the run never
\* gets to report its completion.
C24_WriteFailureStopsRun ==
    /\ [](LoadRaised =>
            /\ Len(FileNames) < Len(TenFiles)
            /\ FileNames = SubSeq(TenFiles, 1, Len(FileNames)))
    /\ [][LoadRaised => pc' = "raised"]_vars

\* the write of companies.csv has failed after four files
C24_Witness == LoadRaised /\ output.found = "dir" /\ Len(output.files) = 4

\* C25: a run goes from extract_data to transform_data to load_data, each
\* begun only when the one before has returned, and a run in which
\* extract_data or transform_data raises makes no directory and writes no
\* file.
C25_StagesInOrder ==
    /\ [](movies # <<>> => reads = {"movies", "credits"} /\ Joinable)
    /\ [](output # NoOutput =>
            /\ pc \in {"loaded", "raised"}
            /\ pc = "raised" => error = "OSError"
            /\ reads = {"movies", "credits"}
            /\ i = Len(df)
            /\ Len(movies) = Len(df))
    /\ [][/\ pc = "extract" => pc' \in {"transform", "raised"}
          /\ pc = "transform" => pc' \in {"transform", "returned", "raised"}
          /\ pc = "transform" /\ pc' = "returned" => i = Len(df)
          /\ pc = "returned" => pc' \in {"loaded", "raised"}
          /\ pc \in {"loaded", "raised"} => pc' = pc]_vars

\* transform_data has raised in a run
C25_Witness == pc = "raised" /\ movies # <<>> /\ error = "KeyError"

(***************************************************************************)
(* Claims about Neo4jConnection (ConnSpec).                                 *)
(***************************************************************************)
\* the places of the call in conn.calls
Places(call) == {k \in DOMAIN conn.calls : conn.calls[k] = call}

\* the ends of the with block
Exits == Places("__exit__(None)") \cup Places("__exit__(exception)")

\* C26: the driver is closed once for each end of a with block, normal or
\* by an exception, and once for each call of close(), at that end or call
\* and at no other time.
C26_ClosedOncePerExit ==
    /\ \A k \in Exits \cup Places("close") :
          k < Len(conn.calls) /\ conn.calls[k + 1] = "driver.close"
    /\ \A k \in Places("driver.close") : k - 1 \in Exits \cup Places("close")
    /\ Cardinality(Places("driver.close")) = Cardinality(Exits) + Cardinality(Places("close"))
    /\ conn.block = "inside" /\ Places("close") = {} => Places("driver.close") = {}

\* a with block with a query and no close() has ended by an exception
C26_Witness ==
    /\ conn.block = "left"
    /\ Places("__exit__(exception)") # {}
    /\ Places("query") # {}
    /\ Places("close") = {}

(***************************************************************************)
(* Claims about the nodes and edges of the output (Spec).                   *)
(***************************************************************************)
\* the ids of a sequence of records
IdSet(recs) == {recs[k].id : k \in DOMAIN recs}

\* C27: every edge of the output refers to nodes of the output: its movie_id
\* is the id of a Movie, and its person_id, genre_id, keyword_id or
\* company_id the id of a Person, Genre, Keyword or Company.
C27_ReferentialIntegrity ==
    Returned =>
        LET N == Out.nodes
            R == Out.relationships
        IN  /\ \A k \in DOMAIN R.acted_in :
                  R.acted_in[k].person_id \in IdSet(N.persons)
                  /\ R.acted_in[k].movie_id \in IdSet(N.movies)
            /\ \A k \in DOMAIN R.directed :
                  R.directed[k].person_id \in IdSet(N.persons)
                  /\ R.directed[k].movie_id \in IdSet(N.movies)
            /\ \A k \in DOMAIN R.categorized_as :
                  R.categorized_as[k].genre_id \in IdSet(N.genres)
                  /\ R.categorized_as[k].movie_id \in IdSet(N.movies)
            /\ \A k \in DOMAIN R.tagged_with :
                  R.tagged_with[k].keyword_id \in IdSet(N.keywords)
                  /\ R.tagged_with[k].movie_id \in IdSet(N.movies)
            /\ \A k \in DOMAIN R.produced :
                  R.produced[k].company_id \in IdSet(N.companies)
                  /\ R.produced[k].movie_id \in IdSet(N.movies)

\* two rows have given edges of the five kinds
C27_Witness ==
    /\ Returned
    /\ Len(df) = 2
    /\ df[1].id # df[2].id
    /\ \A kind \in DOMAIN Out.relationships : Out.relationships[kind] # <<>>

\* the ids of the cast and crew entries from which a Person is stored
StoredIds == {PersonOccurrences[n].e.id : n \in DOMAIN PersonOccurrences}

\* C28: the ids of the Person records are the ids of the cast entries at
\* positions 0 to 9 and of the crew entries whose job is "Director", of all
\* rows; no edge has another person; and every Person record has an
\* ACTED_IN or a DIRECTED edge.
C28_PersonsAreTopCastAndDirectors ==
    Returned =>
        LET edges == Out.relationships.acted_in \o Out.relationships.directed
        IN  /\ IdSet(Out.nodes.persons) = StoredIds
            /\ \A k \in DOMAIN edges : edges[k].person_id \in StoredIds
            /\ \A k \in DOMAIN Out.nodes.persons :
                  \E e \in DOMAIN edges : edges[e].person_id = Out.nodes.persons[k].id

\* a person who is only at cast position 10 and a person who is only crew
\* with another job than Director have no record
C28_Witness ==
    LET occ == Occurrences(<<"cast", "crew">>)
    IN  /\ Returned
        /\ \E n \in DOMAIN occ :
              occ[n].col = "cast" /\ occ[n].pos = 11
              /\ occ[n].e.id \notin IdSet(Out.nodes.persons)
        /\ \E n \in DOMAIN occ :
              occ[n].col = "crew" /\ occ[n].e.job # "Director"
              /\ occ[n].e.id \notin IdSet(Out.nodes.persons)

\* C29: when a row has the same person id among its first 10 cast entries
\* and in a crew entry whose job is "Director", and no later row has the id
\* in its cast or crew, the output has one Person record of the id, with the
\* name, gender and profile_path of the last such crew entry of the row,
\* and both an ACTED_IN and a DIRECTED edge of the person and the row.
C29_CrewAfterCast ==
    Returned =>
        \A n \in DOMAIN PersonOccurrences :
            LET occ  == PersonOccurrences
                c    == occ[n]
                all  == Occurrences(<<"cast", "crew">>)
                recs == {k \in DOMAIN Out.nodes.persons : Out.nodes.persons[k].id = c.e.id}
            IN  /\ c.col = "crew"
                /\ \E a \in DOMAIN occ :
                      occ[a].col = "cast" /\ occ[a].row = c.row /\ occ[a].e.id = c.e.id
                /\ \A m \in DOMAIN occ :
                      m > n => ~(occ[m].row = c.row /\ occ[m].e.id = c.e.id)
                /\ \A m \in DOMAIN all :
                      all[m].row > c.row => ~(Has(all[m].e, "id") /\ all[m].e.id = c.e.id)
                => /\ Cardinality(recs) = 1
                   /\ \A k \in recs :
                         /\ Out.nodes.persons[k].name = c.e.name
                         /\ Out.nodes.persons[k].gender = Optional(c.e, "gender", 0)
                         /\ Out.nodes.persons[k].profile_path =
                                Optional(c.e, "profile_path", "")
                   /\ \E k \in DOMAIN Out.relationships.acted_in :
                         /\ Out.relationships.acted_in[k].person_id = c.e.id
                         /\ Out.relationships.acted_in[k].movie_id = c.movie_id
                   /\ \E k \in DOMAIN Out.relationships.directed :
                         /\ Out.relationships.directed[k].person_id = c.e.id
                         /\ Out.relationships.directed[k].movie_id = c.movie_id

\* the last row has person 1 as its first actor and as its director, under
\* two names, after a row that has the person as an actor only
C29_Witness ==
    /\ Returned
    /\ Len(df) = 2
    /\ df[1].cast = CastSame(2)
    /\ df[2].cast = CastDistinct(1)
    /\ df[2].crew = <<Director(1, "Actor Director")>>

(***************************************************************************)
(* Claims about a second run of parse_json_fields (ParseSpec).              *)
(***************************************************************************)
\* C30: safe_json_loads does not raise on a missing cell or on a cell that
\* holds a list, of whatever length; it returns the empty list for the
\* missing cell and the list itself for the list.
C30_ListsUnchanged ==
    cell.k \in {"nan", "list"} =>
        /\ pc # "raised"
        /\ pc = "cell_returned" =>
              result = Returns(PyValue("list", IF cell.k = "nan" THEN <<>> ELSE cell.v))

=============================================================================
